---------------------------- MODULE Spec2Model ----------------------------
(***************************************************************************)
(* Certificate lifecycle of the istiod control plane (package bootstrap):  *)
(* initDNSCerts, the mesh-config update handler, RotateDNSCertForK8sCA,    *)
(* watchRootCertAndGenKeyCert, the file-watch debounce loop started by     *)
(* initCertificateWatches, and reloadIstiodCert / loadIstiodCert.          *)
(*                                                                         *)
(* PEM material is abstracted to small records:                            *)
(*   a private key is a positive number (0: no key);                       *)
(*   a certificate is [pub, issuer, nb, tailOk]: the key it certifies, the *)
(*   root that signed it, its NotBefore (NotAfter = nb + Lifetime), and    *)
(*   whether the further blocks of its chain parse;                        *)
(*   a root certificate is a positive number (0: none / nil).              *)
(***************************************************************************)
EXTENDS Integers, FiniteSets, Sequences, TLC

\* ------------------------------------------------------------- bounds
\* Last instant of the discrete clock.
MaxTime == 4
\* Number of distinct root certificates.
MaxRoot == 2
\* Number of key pairs the signing backends hand out.
MaxSerial == 3
\* Validity requested for every istiod certificate (SelfSignedCACertTTL), in ticks.
Lifetime == 4
\* Capacity of each file-event channel.
MaxEvents == 1
\* Number of distinct key-file contents.
MaxFileKey == 2
\* Number of entries in one mesh-config push of CA certificates.
MaxCertData == 1
\* Number of versions of the CA's certificate / key file pair.
MaxCAVersion == 2
\* Number of certificates in one trust-anchor update.
MaxAnchors == 2

\* ---------------------------------------------------------- constants
\* int(defaultCertGracePeriodRatio * 100)
defaultCertGracePeriodPercent == 50

Roots == 1 .. MaxRoot
NoRoot == 0
NoKey == 0
\* A certificate chain: the leaf's public key, issuer and notBefore, and
\* whether every further CERTIFICATE block of the PEM parses (tailOk).
NoCert == [pub |-> 0, issuer |-> 0, nb |-> 0, tailOk |-> TRUE]
EmptyBundle == [KeyPem |-> NoKey, CertPem |-> NoCert, CABundle |-> NoRoot]
\* The root stored in the CA file given in the TLS options / the cluster CA file.
FileRoot == 1
\* The root of the CA behind the Kubernetes signer named by the provider setting.
SignerRoot == 1

\* features.PilotCertProvider (and, for "TLSFiles", the TLS options that make
\* the server call initCertificateWatches instead of initDNSCerts).
K8sSigner == "k8s.io/signer"
Kubernetes == "kubernetes"
Istiod == "istiod"
IstiodPluggedIn == "istiod-pluggedin"
Custom == "custom"
TLSFiles == "tls-files"
Providers == {K8sSigner, Kubernetes, Istiod, IstiodPluggedIn, Custom, TLSFiles}

VARIABLES
    provider,     \* the configured certificate source
    phase,        \* "boot" | "serving" | "initerr" | "fatal"
    stop,         \* the stop channel is closed
    bundle,       \* istiodCertBundleWatcher's held bundle
    watchCh,      \* the watcher's notification channel holds a signal
    serial,       \* key pairs handed out so far
    now,          \* the clock
    meshRoot,     \* GetRootCertFromMeshConfig(signerName): 0 when the lookup fails
    meshPc,       \* mesh handler: "idle" | "gen"
    newCaBundle,  \* mesh handler's local
    rotPc,        \* RotateDNSCertForK8sCA: "off" | "top" | "sleep" | "failed" | "set" | "done"
    waitTime,     \* RotateDNSCertForK8sCA's local
    rotWake,      \* the instant its sleep ends
    rotErr,       \* err of its last GenKeyCertK8sCA call
    rotNew,       \* its locals keyPEM, certChain and the evaluated GetCABundle()
    caRoot,       \* s.CA.GetCAKeyCertBundle().GetRootCertPem()
    rootPc,       \* watchRootCertAndGenKeyCert: "off" | "start" | "sleep" | "poll" | "gen" | "failed" | "done"
    caBundle,     \* watchRootCertAndGenKeyCert's local (last-seen root)
    keyFile,      \* content of tlsOptions.KeyFile (0: unreadable)
    certFile,     \* content of tlsOptions.CertFile
    evCert,       \* events queued on fileWatcher.Events(CertFile)
    evKey,        \* events queued on fileWatcher.Events(KeyFile)
    keyCertTimerC,\* "nil" | "pending" | "fired"
    fwPc,         \* file-watch loop: "off" | "select" | "done"
    fwLast,       \* history: what the loop did last: "none" | "event" | "reload-ok" | "reload-err"
    fwEvents,     \* history: events received since the timer was last armed (saturating)
    fwCalls,      \* history: SetFromFilesAndNotify calls since the timer was last armed (saturating)
    loadPc,       \* reloadIstiodCert: "off" | "select" | "recv" | "load" | "done"
    keyCertBundle,\* loadIstiodCert's local
    istiodCert,   \* s.istiodCert: [key, pub] (key 0: none)
    fwAfterStop,  \* history: the file-watch loop ran a select case other than stop after stop was closed
    multiRootMesh,\* features.MultiRootMesh
    plugPc,       \* updatePluggedinRootCertAndGenKeyCert: "idle" | "gen" | "anchor" | "set"
    plugCaBundle, \* its local caBundle
    plugNew,      \* its locals keyPEM and certChain: [key, cert]
    plugErr,      \* what its last call returned: "none" | "genkey" | "anchor"
    trustAnchor,  \* workloadTrustBundle's anchor from source IstioCA
    raBundleRoot, \* KubernetesRA.keyCertBundle's root certificate (0: none)
    raChainPem,   \* KubernetesRA.keyCertBundle's certificate chain
    caCertificatesFromMeshConfig, \* KubernetesRA's map: comma-joined signers -> PEM
    raStored,     \* history: the same entries, keyed by the signer list as it was given
    raOp,         \* the last call on the RA: "none" | "set" | "get" | "sign"
    raSigner,     \* the signer name it looked up
    raCert,       \* SignWithCertChain's local cert (<<>>: Sign failed)
    raRoot,       \* SignWithCertChain's local rootCert
    raResp,       \* the certificates / PEM the call returned (<<>>: nil)
    raErr,        \* the error it returned ("none": nil)
    raDomain,     \* KubernetesRA.certSignerDomain (<<>>: empty)
    raPreSign,    \* history: what preSign returned in the last Sign ("none": nil)
    raBackend,    \* history: chiron.SignCSRK8s in the last Sign: "idle" | "failed" | "signed"
    caCertFile,   \* content of caLoader.CertFile
    caKeyFile,    \* content of caLoader.KeyFile
    caValue,      \* caProvider.caValue
    caPc,         \* per caller of currentCA: "idle" | "key" | "load" | "setCert" | "setKey" | "store" | "reload" | "done"
    caCertPEM,    \* per caller: the local certPEM of currentCA, then of setCA
    caKeyPEM,     \* per caller: the local keyPEM of currentCA, then of setCA
    caCurr,       \* per caller: the local currCA
    caRet,        \* per caller: what currentCA returned: [ca, err]
    tbSourceConfig, \* trust bundle: the contribution held for each source
    tbMerged,     \* trust bundle: the aggregate, a list of roots
    tbLatest,     \* history: the certificates of the latest update of each source
    tbErr         \* what the last UpdateTrustAnchor returned: "none" | "PropagationError"

vars == <<provider, phase, stop, bundle, watchCh, serial, now, meshRoot, meshPc,
          newCaBundle, rotPc, waitTime, rotWake, rotErr, rotNew, caRoot, rootPc,
          caBundle, keyFile, certFile, evCert, evKey, keyCertTimerC, fwPc,
          fwLast, fwEvents, fwCalls, loadPc, keyCertBundle, istiodCert,
          fwAfterStop, multiRootMesh, plugPc, plugCaBundle, plugNew, plugErr,
          trustAnchor, raBundleRoot, raChainPem, caCertificatesFromMeshConfig,
          raStored, raOp, raSigner, raCert, raRoot, raResp, raErr, raDomain,
          raPreSign, raBackend, caCertFile,
          caKeyFile, caValue, caPc, caCertPEM, caKeyPEM, caCurr, caRet,
          tbSourceConfig, tbMerged, tbLatest, tbErr>>

k8sVars == <<now, meshRoot, meshPc, newCaBundle, rotPc, waitTime, rotWake, rotErr, rotNew>>
rootVars == <<caRoot, rootPc, caBundle>>
fileVars == <<keyFile, certFile, evCert, evKey, keyCertTimerC, fwPc, fwLast, fwEvents,
              fwCalls, fwAfterStop>>
fwHist == <<fwLast, fwEvents, fwCalls, fwAfterStop>>
loadVars == <<loadPc, keyCertBundle, istiodCert>>
plugVars == <<multiRootMesh, plugPc, plugCaBundle, plugNew, plugErr, trustAnchor>>
raVars == <<raBundleRoot, raChainPem, caCertificatesFromMeshConfig, raStored, raOp,
            raSigner, raCert, raRoot, raResp, raErr, raDomain, raPreSign, raBackend>>
caVars == <<caCertFile, caKeyFile, caValue, caPc, caCertPEM, caKeyPEM, caCurr, caRet>>
tbVars == <<tbSourceConfig, tbMerged, tbLatest, tbErr>>
extVars == <<plugVars, raVars, caVars, tbVars>>
coreVars == <<provider, phase, stop, bundle, watchCh, serial, k8sVars, rootVars,
              fileVars, loadVars, plugVars, tbVars>>

\* ------------------------------------------------------------- helpers
Range(f) == {f[i] : i \in DOMAIN f}

NotAfter(cert) == cert.nb + Lifetime

\* The instant at which the grace period of cert starts.
Midpoint(cert) ==
    cert.nb + ((NotAfter(cert) - cert.nb) * defaultCertGracePeriodPercent) \div 100

\* certUtil.GetWaitTime(certPem, now): time until the grace period, floored at zero.
GetWaitTime(cert, t) ==
    LET w == ((NotAfter(cert) - cert.nb) * defaultCertGracePeriodPercent) \div 100
             - (t - cert.nb)
    IN  IF w < 0 THEN 0 ELSE w

\* KeyCertBundle verify: the key matches the leaf's public key, and the chain
\* validates against the root.
KeyMatches(key, cert) == key = cert.pub
ChainValid(cert, root) == cert = NoCert \/ cert.issuer = root
Verify(key, cert, root) == KeyMatches(key, cert) /\ ChainValid(cert, root)

\* The key and certificate a signing backend returns on success: a fresh key
\* pair, certified from instant t by root `issuer`.
Issue(issuer, t) ==
    [key |-> serial + 1,
     cert |-> [pub |-> serial + 1, issuer |-> issuer, nb |-> t, tailOk |-> TRUE]]

\* Watcher.SetAndNotify: replace the held bundle, signal the subscriber.
SetAndNotify(key, cert, root) ==
    /\ bundle' = [KeyPem |-> key, CertPem |-> cert, CABundle |-> root]
    /\ watchCh' = TRUE

\* A root other than the one stored in the CA file.
ForeignRoot == 2

\* The contents tlsOptions.CertFile takes: a leaf for any key, issued by the
\* file root or by another root, with a chain that parses; and a leaf for
\* key 1 issued by the file root, followed by a further CERTIFICATE block
\* that does not parse.
FileCerts ==
    [pub : 1 .. MaxFileKey, issuer : {FileRoot, ForeignRoot}, nb : {0}, tailOk : {TRUE}]
        \cup {[pub |-> 1, issuer |-> FileRoot, nb |-> 0, tailOk |-> FALSE]}

\* ---------------------------------------------------------------- Init
\* The server before initDNSCerts / initCertificateWatches.
CoreInit ==
    /\ provider \in Providers
    /\ phase = "boot"
    /\ stop = FALSE
    /\ bundle = EmptyBundle
    /\ watchCh = FALSE
    /\ serial = 0
    /\ now = 0
    /\ meshRoot \in (IF provider = K8sSigner THEN 0 .. MaxRoot ELSE {0})
    /\ meshPc = "idle"
    /\ newCaBundle = NoRoot
    /\ rotPc = "off"
    /\ waitTime = 0
    /\ rotWake = 0
    /\ rotErr = FALSE
    /\ rotNew = EmptyBundle
    /\ caRoot \in (IF provider \in {Istiod, IstiodPluggedIn} THEN Roots ELSE {NoRoot})
    /\ rootPc = "off"
    /\ caBundle = NoRoot
    /\ keyFile \in (IF provider = TLSFiles THEN 0 .. MaxFileKey ELSE {0})
    /\ certFile \in (IF provider = TLSFiles THEN FileCerts ELSE {NoCert})
    /\ evCert = 0
    /\ evKey = 0
    /\ keyCertTimerC = "nil"
    /\ fwPc = "off"
    /\ fwLast = "none"
    /\ fwEvents = 0
    /\ fwCalls = 0
    /\ loadPc = "off"
    /\ keyCertBundle = EmptyBundle
    /\ istiodCert = [key |-> NoKey, pub |-> 0]
    /\ fwAfterStop = FALSE
    /\ multiRootMesh \in (IF provider = IstiodPluggedIn THEN BOOLEAN ELSE {FALSE})
    /\ plugPc = "idle"
    /\ plugCaBundle = NoRoot
    /\ plugNew = [key |-> NoKey, cert |-> NoCert]
    /\ plugErr = "none"
    /\ trustAnchor = NoRoot

\* A KubernetesRA that is not called.
RAIdle ==
    /\ raBundleRoot = NoRoot
    /\ raChainPem = <<>>
    /\ caCertificatesFromMeshConfig = <<>>
    /\ raStored = <<>>
    /\ raOp = "none"
    /\ raSigner = <<>>
    /\ raCert = <<>>
    /\ raRoot = NoRoot
    /\ raResp = <<>>
    /\ raErr = "none"
    /\ raDomain = <<>>
    /\ raPreSign = "none"
    /\ raBackend = "idle"

\* ioutil.ReadFile fails on this content.
Missing == 0
\* The goroutines that call currentCA.
Callers == {"c1", "c2"}
\* A nil *CertificateAuthority.
NilCA == [RawCert |-> Missing, RawKey |-> Missing, Certificate |-> Missing,
          PrivateKey |-> Missing]
NoResult == [ca |-> NilCA, err |-> "none"]

\* A caProvider that is not called.
CAIdle ==
    /\ caCertFile = Missing
    /\ caKeyFile = Missing
    /\ caValue = NilCA
    /\ caPc = [c \in Callers |-> "idle"]
    /\ caCertPEM = [c \in Callers |-> Missing]
    /\ caKeyPEM = [c \in Callers |-> Missing]
    /\ caCurr = [c \in Callers |-> NilCA]
    /\ caRet = [c \in Callers |-> NoResult]

\* The sources of trust anchors, in the order in which the aggregate lists them.
TrustSources == <<"IstioCA", "MeshConfig">>

\* A trust bundle that has received no update.
TBInit ==
    /\ tbSourceConfig = [s \in Range(TrustSources) |-> <<>>]
    /\ tbMerged = <<>>
    /\ tbLatest = [s \in Range(TrustSources) |-> <<>>]
    /\ tbErr = "none"

Init == CoreInit /\ RAIdle /\ CAIdle /\ TBInit

\* ------------------------------------------------------- initDNSCerts
\* Faulty variant of InitFails, kept for comparison: the key and certificate
\* already generated are handed to SetAndNotify before the error is returned.
InitFailsAfterPublishing ==
    /\ phase' = "initerr"
    /\ SetAndNotify(Issue(FileRoot, now).key, Issue(FileRoot, now).cert, NoRoot)
    /\ UNCHANGED <<provider, extVars, stop, serial, k8sVars, rootVars,
                   fileVars, loadVars>>

\* initDNSCerts returns an error: nothing is published, the server does not start.
InitFails ==
    /\ phase' = "initerr"
    /\ UNCHANGED <<provider, extVars, stop, bundle, watchCh, serial, k8sVars, rootVars,
                   fileVars, loadVars>>

\* initDNSCerts, provider "k8s.io/signer/<name>": key and cert from the signer,
\* root from the mesh config; registers the mesh handler and the rotation loop.
InitK8sSigner ==
    /\ phase = "boot" /\ provider = K8sSigner
    /\ \E ok \in BOOLEAN :
         IF ~ok \/ meshRoot = NoRoot
         THEN InitFails
         ELSE /\ SetAndNotify(Issue(SignerRoot, now).key, Issue(SignerRoot, now).cert,
                              meshRoot)
              /\ serial' = serial + 1
              /\ phase' = "serving"
              /\ rotPc' = "top"
              /\ loadPc' = "select"
              /\ UNCHANGED <<provider, extVars, stop, now, meshRoot, meshPc, newCaBundle,
                             waitTime, rotWake, rotErr, rotNew, rootVars, fileVars,
                             keyCertBundle, istiodCert>>

\* initDNSCerts, provider "kubernetes": key and cert from the cluster CA, root
\* read from defaultCACertPath.
InitKubernetes ==
    /\ phase = "boot" /\ provider = Kubernetes
    /\ \E ok \in BOOLEAN, readOk \in BOOLEAN :
         IF ~ok \/ ~readOk
         THEN InitFails
         ELSE /\ SetAndNotify(Issue(FileRoot, now).key, Issue(FileRoot, now).cert,
                              FileRoot)
              /\ serial' = serial + 1
              /\ phase' = "serving"
              /\ rotPc' = "top"
              /\ loadPc' = "select"
              /\ UNCHANGED <<provider, extVars, stop, now, meshRoot, meshPc, newCaBundle,
                             waitTime, rotWake, rotErr, rotNew, rootVars, fileVars,
                             keyCertBundle, istiodCert>>

\* initDNSCerts, provider "istiod", istio-generated cacerts: key and cert from
\* s.CA, root from the CA's bundle; starts watchRootCertAndGenKeyCert, whose
\* first statement reads the CA's root.
InitIstiod ==
    /\ phase = "boot" /\ provider = Istiod
    /\ \E ok \in BOOLEAN :
         IF ~ok
         THEN InitFails
         ELSE /\ SetAndNotify(Issue(caRoot, 0).key, Issue(caRoot, 0).cert, caRoot)
              /\ serial' = serial + 1
              /\ phase' = "serving"
              /\ rootPc' = "start"
              /\ loadPc' = "select"
              /\ UNCHANGED <<provider, extVars, stop, k8sVars, caRoot, caBundle, fileVars,
                             keyCertBundle, istiodCert>>

\* initDNSCerts, provider "istiod", plugged-in cacerts: root read from the
\* root-cert file; no rotation loop.
InitIstiodPluggedIn ==
    /\ phase = "boot" /\ provider = IstiodPluggedIn
    /\ \E ok \in BOOLEAN, readOk \in BOOLEAN :
         IF ~ok \/ ~readOk
         THEN InitFails
         ELSE /\ SetAndNotify(Issue(caRoot, 0).key, Issue(caRoot, 0).cert, FileRoot)
              /\ serial' = serial + 1
              /\ phase' = "serving"
              /\ loadPc' = "select"
              /\ UNCHANGED <<provider, extVars, stop, k8sVars, rootVars, fileVars,
                             keyCertBundle, istiodCert>>

\* initDNSCerts, any other provider: only the root, read from the well-known
\* path, is handed to SetAndNotify; keyPEM and certChain are nil.
InitCustom ==
    /\ phase = "boot" /\ provider = Custom
    /\ \E readOk \in BOOLEAN :
         IF ~readOk
         THEN InitFails
         ELSE /\ SetAndNotify(NoKey, NoCert, FileRoot)
              /\ phase' = "serving"
              /\ loadPc' = "select"
              /\ UNCHANGED <<provider, extVars, stop, serial, k8sVars, rootVars, fileVars,
                             keyCertBundle, istiodCert>>

initDNSCerts ==
    \/ InitK8sSigner
    \/ InitKubernetes
    \/ InitIstiod
    \/ InitIstiodPluggedIn
    \/ InitCustom

\* The stop channel is closed.
Stop ==
    /\ phase = "serving" /\ ~stop
    /\ stop' = TRUE
    /\ UNCHANGED <<provider, extVars, phase, bundle, watchCh, serial, k8sVars, rootVars,
                   fileVars, loadVars>>

\* -------------------------------------------------- mesh-config handler
\* Faulty variant of MeshHandlerReissues, kept for comparison: the root found is
\* not compared with the held one.
MeshHandlerReissuesOnAnyRoot(new, held) == new # NoRoot

\* The handler's condition: the lookup gave a root and it differs from the held one.
MeshHandlerReissues(new, held) == new # NoRoot /\ new # held

\* The mesh config is pushed and the handler registered by initDNSCerts runs up
\* to its call of GenKeyCertK8sCA.
MeshConfigUpdate ==
    /\ phase = "serving" /\ provider = K8sSigner /\ meshPc = "idle"
    /\ \E r \in 0 .. MaxRoot :
         /\ meshRoot' = r
         /\ IF MeshHandlerReissues(r, bundle.CABundle)
            THEN meshPc' = "gen" /\ newCaBundle' = r
            ELSE UNCHANGED <<meshPc, newCaBundle>>
    /\ UNCHANGED <<provider, extVars, phase, stop, bundle, watchCh, serial, now, rotPc,
                   waitTime, rotWake, rotErr, rotNew, rootVars, fileVars, loadVars>>

\* GenKeyCertK8sCA failed in the handler: log.Fatalf ends the process.
MeshHandlerFatal ==
    /\ phase = "serving" /\ meshPc = "gen"
    /\ phase' = "fatal"
    /\ UNCHANGED <<provider, extVars, stop, bundle, watchCh, serial, k8sVars, rootVars,
                   fileVars, loadVars>>

\* GenKeyCertK8sCA succeeded in the handler: publish with the new root.
MeshHandlerPublish ==
    /\ phase = "serving" /\ meshPc = "gen" /\ serial < MaxSerial
    /\ SetAndNotify(Issue(SignerRoot, now).key, Issue(SignerRoot, now).cert,
                    newCaBundle)
    /\ serial' = serial + 1
    /\ meshPc' = "idle"
    /\ newCaBundle' = NoRoot
    /\ UNCHANGED <<provider, extVars, phase, stop, now, meshRoot, rotPc, waitTime, rotWake,
                   rotErr, rotNew, rootVars, fileVars, loadVars>>

\* ------------------------------------------------ RotateDNSCertForK8sCA
\* Faulty variant of RotateWait, kept for comparison: the time elapsed since
\* NotBefore is not subtracted (the wait is the whole grace-period offset).
RotateWaitIgnoresElapsed ==
    /\ phase = "serving" /\ rotPc = "top"
    /\ waitTime' = GetWaitTime(bundle.CertPem, bundle.CertPem.nb)
    /\ rotWake' = now + waitTime'
    /\ rotPc' = "sleep"
    /\ UNCHANGED <<provider, extVars, phase, stop, bundle, watchCh, serial, now, meshRoot,
                   meshPc, newCaBundle, rotErr, rotNew, rootVars, fileVars, loadVars>>

\* Top of the loop: GetWaitTime on the held certificate, then sleep.Until.
RotateWait ==
    /\ phase = "serving" /\ rotPc = "top"
    /\ waitTime' = GetWaitTime(bundle.CertPem, now)
    /\ rotWake' = now + waitTime'
    /\ rotPc' = "sleep"
    /\ UNCHANGED <<provider, extVars, phase, stop, bundle, watchCh, serial, now, meshRoot,
                   meshPc, newCaBundle, rotErr, rotNew, rootVars, fileVars, loadVars>>

\* sleep.Until returns false: the loop returns.
RotateStop ==
    /\ phase = "serving" /\ rotPc = "sleep" /\ stop
    /\ rotPc' = "done"
    /\ UNCHANGED <<provider, extVars, phase, stop, bundle, watchCh, serial, now, meshRoot,
                   meshPc, newCaBundle, waitTime, rotWake, rotErr, rotNew, rootVars,
                   fileVars, loadVars>>

\* The sleep ended and GenKeyCertK8sCA returned an error.
RotateGenFail ==
    /\ phase = "serving" /\ rotPc = "sleep" /\ now >= rotWake
    /\ rotErr' = TRUE
    /\ rotPc' = "failed"
    /\ UNCHANGED <<provider, extVars, phase, stop, bundle, watchCh, serial, now, meshRoot,
                   meshPc, newCaBundle, waitTime, rotWake, rotNew, rootVars,
                   fileVars, loadVars>>

\* Faulty variant of RotateOnError, kept for comparison: the loop returns on a failed re-issue.
RotateOnErrorReturns ==
    /\ phase = "serving" /\ rotPc = "failed"
    /\ rotPc' = "done"
    /\ UNCHANGED <<provider, extVars, phase, stop, bundle, watchCh, serial, now, meshRoot,
                   meshPc, newCaBundle, waitTime, rotWake, rotErr, rotNew, rootVars,
                   fileVars, loadVars>>

\* Faulty variant of RotateOnError, kept for comparison: the nil results of the
\* failed call are handed to SetAndNotify before the loop continues.
RotateOnErrorPublishesNil ==
    /\ phase = "serving" /\ rotPc = "failed"
    /\ SetAndNotify(NoKey, NoCert, NoRoot)
    /\ rotPc' = "top"
    /\ UNCHANGED <<provider, extVars, phase, stop, serial, now, meshRoot,
                   meshPc, newCaBundle, waitTime, rotWake, rotErr, rotNew, rootVars,
                   fileVars, loadVars>>

\* if err != nil: log.Errorf, continue.
RotateOnError ==
    /\ phase = "serving" /\ rotPc = "failed"
    /\ rotPc' = "top"
    /\ UNCHANGED <<provider, extVars, phase, stop, bundle, watchCh, serial, now, meshRoot,
                   meshPc, newCaBundle, waitTime, rotWake, rotErr, rotNew, rootVars,
                   fileVars, loadVars>>

\* The sleep ended and GenKeyCertK8sCA succeeded; the arguments of SetAndNotify,
\* GetCABundle() among them, are evaluated.
RotateGenOk ==
    /\ phase = "serving" /\ rotPc = "sleep" /\ now >= rotWake /\ serial < MaxSerial
    /\ LET issuer == IF provider = K8sSigner THEN SignerRoot ELSE FileRoot
       IN  rotNew' = [KeyPem |-> Issue(issuer, now).key,
                      CertPem |-> Issue(issuer, now).cert,
                      CABundle |-> bundle.CABundle]
    /\ serial' = serial + 1
    /\ rotErr' = FALSE
    /\ rotPc' = "set"
    /\ UNCHANGED <<provider, extVars, phase, stop, bundle, watchCh, now, meshRoot, meshPc,
                   newCaBundle, waitTime, rotWake, rootVars, fileVars, loadVars>>

\* SetAndNotify(keyPEM, certChain, <the CA bundle read>), back to the top.
RotateSet ==
    /\ phase = "serving" /\ rotPc = "set"
    /\ SetAndNotify(rotNew.KeyPem, rotNew.CertPem, rotNew.CABundle)
    /\ rotNew' = EmptyBundle
    /\ rotPc' = "top"
    /\ UNCHANGED <<provider, extVars, phase, stop, serial, now, meshRoot, meshPc,
                   newCaBundle, waitTime, rotWake, rotErr, rootVars, fileVars,
                   loadVars>>

\* Time passes while every task of the process is blocked.
Tick ==
    /\ phase = "serving" /\ provider \in {K8sSigner, Kubernetes}
    /\ now < MaxTime
    /\ meshPc = "idle"
    /\ rotPc \in {"sleep", "done"}
    /\ rotPc = "sleep" => (rotWake > now /\ ~stop)
    /\ now' = now + 1
    /\ UNCHANGED <<provider, extVars, phase, stop, bundle, watchCh, serial, meshRoot, meshPc,
                   newCaBundle, rotPc, waitTime, rotWake, rotErr, rotNew, rootVars,
                   fileVars, loadVars>>

\* Time passes while GenKeyCertK8sCA waits for the certificate signing request
\* it submitted: the failed call returns one tick after it was made.
TickInGenKeyCert ==
    /\ phase = "serving" /\ provider \in {K8sSigner, Kubernetes}
    /\ now < MaxTime
    /\ meshPc = "idle"
    /\ rotPc = "failed"
    /\ now' = now + 1
    /\ UNCHANGED <<provider, extVars, phase, stop, bundle, watchCh, serial, meshRoot, meshPc,
                   newCaBundle, rotPc, waitTime, rotWake, rotErr, rotNew, rootVars,
                   fileVars, loadVars>>

\* ------------------------------------------- watchRootCertAndGenKeyCert
\* Faulty variant of RootChanged, kept for comparison: the negation of bytes.Equal is dropped.
RootChangedInverted(last, current) == last = current

\* bytes.Equal(caBundle, newRootCert) is false.
RootChanged(last, current) == last # current

\* The self-signed CA rotates its root.
CARootRotate ==
    /\ phase = "serving" /\ provider = Istiod
    /\ \E r \in Roots \ {caRoot} : caRoot' = r
    /\ UNCHANGED <<provider, extVars, phase, stop, bundle, watchCh, serial, k8sVars, rootPc,
                   caBundle, fileVars, loadVars>>

\* caBundle := s.CA.GetCAKeyCertBundle().GetRootCertPem(), before the loop.
RootStart ==
    /\ phase = "serving" /\ rootPc = "start"
    /\ caBundle' = caRoot
    /\ rootPc' = "sleep"
    /\ UNCHANGED <<provider, extVars, phase, stop, bundle, watchCh, serial, k8sVars, caRoot,
                   fileVars, loadVars>>

\* sleep.Until returns false: the loop returns.
RootStop ==
    /\ phase = "serving" /\ rootPc = "sleep" /\ stop
    /\ rootPc' = "done"
    /\ UNCHANGED <<provider, extVars, phase, stop, bundle, watchCh, serial, k8sVars, caRoot,
                   caBundle, fileVars, loadVars>>

\* rootCertPollingInterval elapsed: sleep.Until returns true.
RootWake ==
    /\ phase = "serving" /\ rootPc = "sleep"
    /\ rootPc' = "poll"
    /\ UNCHANGED <<provider, extVars, phase, stop, bundle, watchCh, serial, k8sVars, caRoot,
                   caBundle, fileVars, loadVars>>

\* Read the CA's root and compare it with the last-seen one; when they differ,
\* remember the new root and go on to GenKeyCert.
RootPoll ==
    /\ phase = "serving" /\ rootPc = "poll"
    /\ IF RootChanged(caBundle, caRoot)
       THEN caBundle' = caRoot /\ rootPc' = "gen"
       ELSE caBundle' = caBundle /\ rootPc' = "sleep"
    /\ UNCHANGED <<provider, extVars, phase, stop, bundle, watchCh, serial, k8sVars, caRoot,
                   fileVars, loadVars>>

\* s.CA.GenKeyCert returned an error.
RootGenFail ==
    /\ phase = "serving" /\ rootPc = "gen"
    /\ rootPc' = "failed"
    /\ UNCHANGED <<provider, extVars, phase, stop, bundle, watchCh, serial, k8sVars, caRoot,
                   caBundle, fileVars, loadVars>>

\* if err != nil: log.Errorf, then the next iteration's sleep.
RootOnError ==
    /\ phase = "serving" /\ rootPc = "failed"
    /\ rootPc' = "sleep"
    /\ UNCHANGED <<provider, extVars, phase, stop, bundle, watchCh, serial, k8sVars, caRoot,
                   caBundle, fileVars, loadVars>>

\* s.CA.GenKeyCert succeeded (the CA signs with its current root): publish with
\* the root observed at the poll.
RootGenOk ==
    /\ phase = "serving" /\ rootPc = "gen" /\ serial < MaxSerial
    /\ SetAndNotify(Issue(caRoot, 0).key, Issue(caRoot, 0).cert, caBundle)
    /\ serial' = serial + 1
    /\ rootPc' = "sleep"
    /\ UNCHANGED <<provider, extVars, phase, stop, k8sVars, caRoot, caBundle, fileVars,
                   loadVars>>

\* ------------------------------ updatePluggedinRootCertAndGenKeyCert
\* The plugged-in CA was replaced by one with root r and the server calls
\* updatePluggedinRootCertAndGenKeyCert, which reads the CA's root.
UpdatePluggedinStart ==
    /\ phase = "serving" /\ provider = IstiodPluggedIn /\ plugPc = "idle"
    /\ \E r \in Roots :
         /\ caRoot' = r
         /\ plugCaBundle' = r
    /\ plugPc' = "gen"
    /\ UNCHANGED <<provider, raVars, caVars, tbVars, phase, stop, bundle, watchCh, serial, k8sVars, rootPc,
                   caBundle, fileVars, loadVars, multiRootMesh, plugNew, plugErr,
                   trustAnchor>>

\* s.CA.GenKeyCert failed: return err.
UpdatePluggedinGenFail ==
    /\ phase = "serving" /\ plugPc = "gen"
    /\ plugErr' = "genkey"
    /\ plugPc' = "idle"
    /\ UNCHANGED <<provider, raVars, caVars, tbVars, phase, stop, bundle, watchCh, serial, k8sVars, rootVars,
                   fileVars, loadVars, multiRootMesh, plugCaBundle, plugNew,
                   trustAnchor>>

\* s.CA.GenKeyCert succeeded; with features.MultiRootMesh the trust anchor is
\* updated next, otherwise the bundle is published.
UpdatePluggedinGenOk ==
    /\ phase = "serving" /\ plugPc = "gen" /\ serial < MaxSerial
    /\ plugNew' = Issue(caRoot, 0)
    /\ serial' = serial + 1
    /\ plugPc' = IF multiRootMesh THEN "anchor" ELSE "set"
    /\ UNCHANGED <<provider, raVars, caVars, tbVars, phase, stop, bundle, watchCh, k8sVars, rootVars,
                   fileVars, loadVars, multiRootMesh, plugCaBundle, plugErr,
                   trustAnchor>>

\* workloadTrustBundle.UpdateTrustAnchor returned an error (the local trust
\* bundle has taken the new anchor, the propagation failed): log.Errorf, return err.
UpdateTrustAnchorFail ==
    /\ phase = "serving" /\ plugPc = "anchor"
    /\ trustAnchor' = plugCaBundle
    /\ plugErr' = "anchor"
    /\ plugPc' = "idle"
    /\ UNCHANGED <<provider, raVars, caVars, tbVars, phase, stop, bundle, watchCh, serial, k8sVars, rootVars,
                   fileVars, loadVars, multiRootMesh, plugCaBundle, plugNew>>

\* workloadTrustBundle.UpdateTrustAnchor succeeded.
UpdateTrustAnchorOk ==
    /\ phase = "serving" /\ plugPc = "anchor"
    /\ trustAnchor' = plugCaBundle
    /\ plugPc' = "set"
    /\ UNCHANGED <<provider, raVars, caVars, tbVars, phase, stop, bundle, watchCh, serial, k8sVars, rootVars,
                   fileVars, loadVars, multiRootMesh, plugCaBundle, plugNew, plugErr>>

\* SetAndNotify(keyPEM, certChain, caBundle), return nil.
UpdatePluggedinSet ==
    /\ phase = "serving" /\ plugPc = "set"
    /\ SetAndNotify(plugNew.key, plugNew.cert, plugCaBundle)
    /\ plugErr' = "none"
    /\ plugPc' = "idle"
    /\ UNCHANGED <<provider, raVars, caVars, tbVars, phase, stop, serial, k8sVars, rootVars, fileVars,
                   loadVars, multiRootMesh, plugCaBundle, plugNew, trustAnchor>>

\* ---------------------------------------------- initCertificateWatches
\* Watcher.SetFromFilesAndNotify fails: a file is unreadable or the bundle read
\* from the files does not verify.
SetFromFilesFails == keyFile = 0 \/ ~Verify(keyFile, certFile, FileRoot)

\* Watcher.SetFromFilesAndNotify(KeyFile, CertFile, CaCertFile).
SetFromFilesAndNotify ==
    IF SetFromFilesFails
    THEN UNCHANGED <<bundle, watchCh>>
    ELSE SetAndNotify(keyFile, certFile, FileRoot)

\* initCertificateWatches: load the files, add the watches, start the loop.
initCertificateWatches ==
    /\ phase = "boot" /\ provider = TLSFiles
    /\ SetFromFilesAndNotify
    /\ \E addOk \in BOOLEAN :
         IF SetFromFilesFails \/ ~addOk
         THEN /\ phase' = "initerr"
              /\ UNCHANGED <<fwPc, loadPc>>
         ELSE /\ phase' = "serving"
              /\ fwPc' = "select"
              /\ loadPc' = "select"
    /\ UNCHANGED <<provider, extVars, stop, serial, k8sVars, rootVars, keyFile, certFile,
                   evCert, evKey, keyCertTimerC, fwHist, keyCertBundle, istiodCert>>

\* The certificate file is rewritten; the file watcher queues an event.
WriteCertFile ==
    /\ phase = "serving" /\ fwPc = "select" /\ evCert < MaxEvents
    /\ \E c \in FileCerts : certFile' = c
    /\ evCert' = evCert + 1
    /\ UNCHANGED <<provider, extVars, phase, stop, bundle, watchCh, serial, k8sVars, rootVars,
                   keyFile, evKey, keyCertTimerC, fwPc, fwHist, loadVars>>

\* The key file is rewritten (or removed); the file watcher queues an event.
WriteKeyFile ==
    /\ phase = "serving" /\ fwPc = "select" /\ evKey < MaxEvents
    /\ \E k \in 0 .. MaxFileKey : keyFile' = k
    /\ evKey' = evKey + 1
    /\ UNCHANGED <<provider, extVars, phase, stop, bundle, watchCh, serial, k8sVars, rootVars,
                   certFile, evCert, keyCertTimerC, fwPc, fwHist, loadVars>>

\* watchDebounceDelay elapsed: the timer's channel becomes ready.
TimerFires ==
    /\ phase = "serving" /\ keyCertTimerC = "pending"
    /\ keyCertTimerC' = "fired"
    /\ UNCHANGED <<provider, extVars, phase, stop, bundle, watchCh, serial, k8sVars, rootVars,
                   keyFile, certFile, evCert, evKey, fwPc, fwHist, loadVars>>

\* Faulty variant of OnFileEvent, kept for comparison: every event re-arms the timer (no nil check).
OnFileEventRearm(timer) == "pending"

\* What receiving a file event does to the debounce timer.
OnFileEvent(timer) == IF timer = "nil" THEN "pending" ELSE timer

\* History of the loop after it received a file event.
EventReceived ==
    /\ fwLast' = "event"
    /\ fwEvents' = IF keyCertTimerC = "nil" THEN 1
                   ELSE IF fwEvents < 2 THEN fwEvents + 1 ELSE fwEvents
    /\ fwCalls' = IF keyCertTimerC = "nil" THEN 0 ELSE fwCalls
    /\ fwAfterStop' = (fwAfterStop \/ stop)

\* History of the loop after it called SetFromFilesAndNotify.
ReloadCalled ==
    /\ fwLast' = IF SetFromFilesFails THEN "reload-err" ELSE "reload-ok"
    /\ fwCalls' = IF fwCalls < 2 THEN fwCalls + 1 ELSE fwCalls
    /\ fwEvents' = fwEvents
    /\ fwAfterStop' = (fwAfterStop \/ stop)

\* Faulty variant of FwTimer, kept for comparison: the loop returns when the reload fails.
FwTimerReturnsOnError ==
    /\ phase = "serving" /\ fwPc = "select" /\ keyCertTimerC = "fired"
    /\ keyCertTimerC' = "nil"
    /\ SetFromFilesAndNotify
    /\ ReloadCalled
    /\ fwPc' = IF SetFromFilesFails THEN "done" ELSE fwPc
    /\ UNCHANGED <<provider, extVars, phase, stop, serial, k8sVars, rootVars, keyFile,
                   certFile, evCert, evKey, loadVars>>

\* case <-keyCertTimerC: clear the timer and reload from the files; an error is
\* only logged.
FwTimer ==
    /\ phase = "serving" /\ fwPc = "select" /\ keyCertTimerC = "fired"
    /\ keyCertTimerC' = "nil"
    /\ SetFromFilesAndNotify
    /\ ReloadCalled
    /\ UNCHANGED <<provider, extVars, phase, stop, serial, k8sVars, rootVars, keyFile,
                   certFile, evCert, evKey, fwPc, loadVars>>

\* case <-s.fileWatcher.Events(tlsOptions.CertFile)
FwCertEvent ==
    /\ phase = "serving" /\ fwPc = "select" /\ evCert > 0
    /\ evCert' = evCert - 1
    /\ keyCertTimerC' = OnFileEvent(keyCertTimerC)
    /\ EventReceived
    /\ UNCHANGED <<provider, extVars, phase, stop, bundle, watchCh, serial, k8sVars, rootVars,
                   keyFile, certFile, evKey, fwPc, loadVars>>

\* case <-s.fileWatcher.Events(tlsOptions.KeyFile)
FwKeyEvent ==
    /\ phase = "serving" /\ fwPc = "select" /\ evKey > 0
    /\ evKey' = evKey - 1
    /\ keyCertTimerC' = OnFileEvent(keyCertTimerC)
    /\ EventReceived
    /\ UNCHANGED <<provider, extVars, phase, stop, bundle, watchCh, serial, k8sVars, rootVars,
                   keyFile, certFile, evCert, fwPc, loadVars>>

\* case <-stop: the loop returns.
FwStop ==
    /\ phase = "serving" /\ fwPc = "select" /\ stop
    /\ fwPc' = "done"
    /\ UNCHANGED <<provider, extVars, phase, stop, bundle, watchCh, serial, k8sVars, rootVars,
                   keyFile, certFile, evCert, evKey, keyCertTimerC, fwHist, loadVars>>

\* The three cases above as they act on the program's state alone: the
\* history variables of the loop are not kept.
FwTimerPlain ==
    /\ phase = "serving" /\ fwPc = "select" /\ keyCertTimerC = "fired"
    /\ keyCertTimerC' = "nil"
    /\ SetFromFilesAndNotify
    /\ UNCHANGED <<provider, extVars, phase, stop, serial, k8sVars, rootVars, keyFile,
                   certFile, evCert, evKey, fwPc, fwHist, loadVars>>

FwCertEventPlain ==
    /\ phase = "serving" /\ fwPc = "select" /\ evCert > 0
    /\ evCert' = evCert - 1
    /\ keyCertTimerC' = OnFileEvent(keyCertTimerC)
    /\ UNCHANGED <<provider, extVars, phase, stop, bundle, watchCh, serial, k8sVars, rootVars,
                   keyFile, certFile, evKey, fwPc, fwHist, loadVars>>

FwKeyEventPlain ==
    /\ phase = "serving" /\ fwPc = "select" /\ evKey > 0
    /\ evKey' = evKey - 1
    /\ keyCertTimerC' = OnFileEvent(keyCertTimerC)
    /\ UNCHANGED <<provider, extVars, phase, stop, bundle, watchCh, serial, k8sVars, rootVars,
                   keyFile, certFile, evCert, fwPc, fwHist, loadVars>>

\* ------------------------------------- reloadIstiodCert / loadIstiodCert
\* tls.X509KeyPair(certPem, keyPem) succeeds.
X509KeyPairOk(cert, key) == cert # NoCert /\ key # NoKey /\ key = cert.pub

\* x509.ParseCertificates succeeds on every element of keyPair.Certificate
\* (tls.X509KeyPair has parsed the leaf only).
ParseCertificatesOk(cert) == cert.tailOk

\* Faulty variant of LoadedPair, kept for comparison: the key is read from the watcher a second time.
LoadedPairTwoReads(local, held) == [key |-> held.KeyPem, cert |-> local.CertPem]

\* The certificate and key loadIstiodCert hands to tls.X509KeyPair: both from
\* the one bundle GetKeyCertBundle() returned.
LoadedPair(local, held) == [key |-> local.KeyPem, cert |-> local.CertPem]

\* case <-watchCh: the notification is taken from the channel and
\* loadIstiodCert is called.
ReloadRecv ==
    /\ phase = "serving" /\ loadPc = "select" /\ watchCh
    /\ watchCh' = FALSE
    /\ loadPc' = "recv"
    /\ UNCHANGED <<provider, extVars, phase, stop, bundle, serial, k8sVars, rootVars,
                   fileVars, keyCertBundle, istiodCert>>

\* loadIstiodCert: keyCertBundle := s.istiodCertBundleWatcher.GetKeyCertBundle(),
\* the bundle the watcher holds at that moment.
GetKeyCertBundle ==
    /\ phase = "serving" /\ loadPc = "recv"
    /\ keyCertBundle' = bundle
    /\ loadPc' = "load"
    /\ UNCHANGED <<provider, extVars, phase, stop, bundle, watchCh, serial, k8sVars,
                   rootVars, fileVars, istiodCert>>

\* Faulty variant of LoadPair, kept for comparison: loadIstiodCert returns
\* before it stores the key pair.
LoadPairNotStored ==
    /\ phase = "serving" /\ loadPc = "load"
    /\ keyCertBundle' = EmptyBundle
    /\ loadPc' = "select"
    /\ UNCHANGED <<provider, extVars, phase, stop, bundle, watchCh, serial, k8sVars,
                   rootVars, fileVars, istiodCert>>

\* loadIstiodCert builds the key pair and, when tls.X509KeyPair accepts it and
\* every certificate of its chain parses, stores it in s.istiodCert; an error
\* is returned before the store and only logged by the caller.
LoadPair ==
    /\ phase = "serving" /\ loadPc = "load"
    /\ LET p == LoadedPair(keyCertBundle, bundle)
       IN  istiodCert' = IF X509KeyPairOk(p.cert, p.key) /\ ParseCertificatesOk(p.cert)
                         THEN [key |-> p.key, pub |-> p.cert.pub]
                         ELSE istiodCert
    /\ keyCertBundle' = EmptyBundle
    /\ loadPc' = "select"
    /\ UNCHANGED <<provider, extVars, phase, stop, bundle, watchCh, serial, k8sVars, rootVars,
                   fileVars>>

\* case <-stopCh: reloadIstiodCert returns.
ReloadStop ==
    /\ phase = "serving" /\ loadPc = "select" /\ stop
    /\ loadPc' = "done"
    /\ UNCHANGED <<provider, extVars, phase, stop, bundle, watchCh, serial, k8sVars, rootVars,
                   fileVars, keyCertBundle, istiodCert>>

\* ---------------------------------------------------------------- Spec
Next ==
    \/ initDNSCerts
    \/ initCertificateWatches
    \/ Stop
    \/ MeshConfigUpdate
    \/ MeshHandlerFatal
    \/ MeshHandlerPublish
    \/ RotateWait
    \/ RotateStop
    \/ RotateGenFail
    \/ RotateOnError
    \/ RotateGenOk
    \/ RotateSet
    \/ Tick
    \/ TickInGenKeyCert
    \/ CARootRotate
    \/ RootStart
    \/ RootStop
    \/ RootWake
    \/ RootPoll
    \/ RootGenFail
    \/ RootOnError
    \/ RootGenOk
    \/ WriteCertFile
    \/ WriteKeyFile
    \/ TimerFires
    \/ FwTimer
    \/ FwCertEvent
    \/ FwKeyEvent
    \/ FwStop
    \/ ReloadRecv
    \/ GetKeyCertBundle
    \/ LoadPair
    \/ ReloadStop
    \/ UpdatePluggedinStart
    \/ UpdatePluggedinGenFail
    \/ UpdatePluggedinGenOk
    \/ UpdateTrustAnchorFail
    \/ UpdateTrustAnchorOk
    \/ UpdatePluggedinSet

Spec == Init /\ [][Next]_vars

\* The istio-generated ("istiod") configuration alone, with the scheduling of
\* watchRootCertAndGenKeyCert made explicit: the goroutine keeps running, its
\* timer keeps firing, and a CertProvider that is invoked again and again
\* eventually succeeds.
InitIstiodOnly == Init /\ provider = Istiod

NextIstiod ==
    \/ InitIstiod
    \/ Stop
    \/ CARootRotate
    \/ RootStart
    \/ RootStop
    \/ RootWake
    \/ RootPoll
    \/ RootGenFail
    \/ RootOnError
    \/ RootGenOk
    \/ ReloadRecv
    \/ GetKeyCertBundle
    \/ LoadPair
    \/ ReloadStop

FairSpecIstiod ==
    /\ InitIstiodOnly
    /\ [][NextIstiod]_vars
    /\ WF_vars(RootStart)
    /\ WF_vars(RootWake)
    /\ WF_vars(RootPoll)
    /\ WF_vars(RootOnError)
    /\ WF_vars(RootGenFail \/ RootGenOk)
    /\ SF_vars(RootGenOk)

\* The "kubernetes", custom-provider and TLS-files configurations with their
\* publishers (the file-watch loop without its history variables), and the
\* scheduling of reloadIstiodCert made explicit: the goroutine keeps running,
\* so a pending notification is eventually received unless the loop has
\* returned, and loadIstiodCert runs to its end.
InitReload == Init /\ provider \in {Kubernetes, Custom, TLSFiles}

NextReload ==
    \/ InitKubernetes
    \/ InitCustom
    \/ Stop
    \/ RotateWait
    \/ RotateStop
    \/ RotateGenFail
    \/ RotateOnError
    \/ RotateGenOk
    \/ RotateSet
    \/ Tick
    \/ TickInGenKeyCert
    \/ initCertificateWatches
    \/ WriteCertFile
    \/ WriteKeyFile
    \/ TimerFires
    \/ FwTimerPlain
    \/ FwCertEventPlain
    \/ FwKeyEventPlain
    \/ FwStop
    \/ ReloadRecv
    \/ GetKeyCertBundle
    \/ LoadPair
    \/ ReloadStop

FairSpecReload ==
    /\ InitReload
    /\ [][NextReload]_vars
    /\ WF_vars(ReloadRecv \/ GetKeyCertBundle \/ LoadPair)

\* The file-watch loop of the TLS-files configuration and the file writers,
\* with the scheduling of the loop made explicit: a pending debounce timer eventually fires, and a select in
\* which the timer's case stays ready eventually runs it (Go chooses among
\* the ready cases at random) unless the loop has returned.
InitFiles == Init /\ provider = TLSFiles

NextFiles ==
    \/ initCertificateWatches
    \/ Stop
    \/ WriteCertFile
    \/ WriteKeyFile
    \/ TimerFires
    \/ FwTimer
    \/ FwCertEvent
    \/ FwKeyEvent
    \/ FwStop

FairSpecFiles ==
    /\ InitFiles
    /\ [][NextFiles]_vars
    /\ WF_vars(TimerFires)
    /\ WF_vars(FwTimer)

\* ----------------------------------------------------------- KubernetesRA
\* Strings are sequences of one-character strings; a certificate is
\* [subject, issuer] (subject 0: a leaf; subject = issuer: a self-signed root);
\* a PEM block of certificates is a sequence of certificates.
Comma == ","
Slash == "/"
\* raOpts.CertSignerDomain
certSignerDomain == <<"d">>
\* The values of certOpts.CertSigner.
CertSigners == {<<"x">>, <<"y">>}

\* certSigner := r.certSignerDomain + "/" + certOpts.CertSigner
LookupName(signer) == certSignerDomain \o <<Slash>> \o signer

SignerNames == {LookupName(c) : c \in CertSigners}
NameX == LookupName(<<"x">>)
NameY == LookupName(<<"y">>)
\* The values of MeshConfig_CertificateData.CertSigners.
SignerLists == {<<>>, <<NameX>>, <<NameY>>, <<NameX, NameY>>}
\* MeshConfig_CertificateData: Pem 0 is the empty string.
CertificateData == [Pem : 0 .. MaxRoot, CertSigners : SignerLists]
\* The caCertificates argument of one call.
CertificateDataLists ==
    UNION {[1 .. n -> CertificateData] : n \in 0 .. MaxCertData}

Leaf(issuer) == [subject |-> 0, issuer |-> issuer]
RootCertOf(r) == [subject |-> r, issuer |-> r]
RootPem(r) == <<RootCertOf(r)>>

\* strings.Join(list, ",")
RECURSIVE Join(_)
Join(list) ==
    IF list = <<>> THEN <<>>
    ELSE IF Tail(list) = <<>> THEN Head(list)
    ELSE Head(list) \o <<Comma>> \o Join(Tail(list))

\* strings.Split(str, ","): the substrings between the commas.
RECURSIVE Split(_)
Split(str) ==
    IF \A i \in DOMAIN str : str[i] # Comma
    THEN <<str>>
    ELSE LET c == CHOOSE i \in DOMAIN str :
                      str[i] = Comma /\ \A j \in DOMAIN str : j < i => str[j] # Comma
         IN  <<SubSeq(str, 1, c - 1)>> \o Split(SubSeq(str, c + 1, Len(str)))

\* Faulty variant of SignerList, kept for comparison: the key is not split.
SignerListUnsplit(signers) == <<signers>>

\* signerList := strings.Split(signers, ",")
SignerList(signers) == Split(signers)

\* Faulty variant of StoreCertData, kept for comparison: the map is rebuilt
\* from the entry instead of being updated.
StoreCertDataResets(m, pemCert) ==
    IF pemCert.CertSigners # <<>> /\ pemCert.Pem # 0
    THEN [k \in {Join(pemCert.CertSigners)} |-> pemCert.Pem]
    ELSE <<>>

\* One pass of SetCACertificatesFromMeshConfig's loop body over the map m.
StoreCertData(m, pemCert) ==
    IF pemCert.CertSigners # <<>> /\ pemCert.Pem # 0
    THEN [k \in DOMAIN m \cup {Join(pemCert.CertSigners)} |->
            IF k = Join(pemCert.CertSigners) THEN pemCert.Pem ELSE m[k]]
    ELSE m

RECURSIVE StoreAll(_, _)
StoreAll(m, caCertificates) ==
    IF caCertificates = <<>> THEN m
    ELSE StoreAll(StoreCertData(m, Head(caCertificates)), Tail(caCertificates))

\* History: the same loop over the entries keyed by their signer lists.
RememberCertData(h, pemCert) ==
    IF pemCert.CertSigners # <<>> /\ pemCert.Pem # 0
    THEN [l \in DOMAIN h \cup {pemCert.CertSigners} |->
            IF l = pemCert.CertSigners THEN pemCert.Pem ELSE h[l]]
    ELSE h

RECURSIVE RememberAll(_, _)
RememberAll(h, caCertificates) ==
    IF caCertificates = <<>> THEN h
    ELSE RememberAll(RememberCertData(h, Head(caCertificates)), Tail(caCertificates))

\* The results GetRootCertFromMeshConfig(signerName) can return on the map m
\* (Go ranges over a map in no fixed order): the PEM of any entry whose split
\* key has signerName among its elements. Empty: the call returns an error.
GetRootCertFromMeshConfig(m, signerName) ==
    {m[k] : k \in {k \in DOMAIN m : signerName \in Range(SignerList(k))}}

\* The error GetRootCertFromMeshConfig returns when it finds nothing.
GetRootCertError(m) ==
    IF DOMAIN m = {} THEN "no caCertificates defined in mesh config"
    ELSE "failed to find root cert for signer"

\* util.FindRootCertFromCertificateChainBytes: the self-signed certificate of
\* the chain; NoRoot stands for its error.
FindRootCertFromCertificateChainBytes(cert) ==
    LET roots == {i \in DOMAIN cert : cert[i].subject = cert[i].issuer}
    IN  IF roots = {} THEN NoRoot
        ELSE cert[CHOOSE i \in roots : \A j \in roots : j <= i].issuer

\* util.VerifyCertificate(nil, cert, rootCert, nil) succeeds: the leaf chains
\* up to rootCert.
VerifyCertificate(cert, rootCert) ==
    rootCert # NoRoot /\ cert # <<>> /\ Head(cert).issuer = rootCert

\* Faulty variant of ChooseRoot, kept for comparison: the chain's root is preferred.
ChooseRootPrefersChain(rootCertFromMeshConfig, rootCertFromCertChain) ==
    IF rootCertFromCertChain # NoRoot THEN rootCertFromCertChain
    ELSE rootCertFromMeshConfig

\* rootCert: the mesh-config root when there is one, else the chain's root.
ChooseRoot(rootCertFromMeshConfig, rootCertFromCertChain) ==
    IF rootCertFromMeshConfig # NoRoot THEN rootCertFromMeshConfig
    ELSE rootCertFromCertChain

\* NewKubernetesRA: the bundle is read from raOpts.CaCertFile, the map is empty.
RAInit ==
    /\ raBundleRoot \in 0 .. MaxRoot
    /\ raChainPem \in {<<>>} \cup {RootPem(r) : r \in Roots}
    /\ caCertificatesFromMeshConfig = <<>>
    /\ raStored = <<>>
    /\ raOp = "none"
    /\ raSigner = <<>>
    /\ raCert = <<>>
    /\ raRoot = NoRoot
    /\ raResp = <<>>
    /\ raErr = "none"
    /\ raDomain = certSignerDomain
    /\ raPreSign = "none"
    /\ raBackend = "idle"

SetCACertificatesFromMeshConfig ==
    /\ \E caCertificates \in CertificateDataLists :
         /\ caCertificatesFromMeshConfig' =
                StoreAll(caCertificatesFromMeshConfig, caCertificates)
         /\ raStored' = RememberAll(raStored, caCertificates)
    /\ raOp' = "set"
    /\ raSigner' = <<>>
    /\ raCert' = <<>>
    /\ raRoot' = NoRoot
    /\ raResp' = <<>>
    /\ raErr' = "none"
    /\ UNCHANGED <<coreVars, caVars, raBundleRoot, raChainPem, raDomain, raPreSign, raBackend>>

\* A call of GetRootCertFromMeshConfig(signerName) from outside the RA.
GetRootCert ==
    /\ \E signerName \in SignerNames :
         LET found == GetRootCertFromMeshConfig(caCertificatesFromMeshConfig, signerName)
         IN  /\ raSigner' = signerName
             /\ IF found = {}
                THEN /\ raResp' = <<>>
                     /\ raErr' = GetRootCertError(caCertificatesFromMeshConfig)
                ELSE /\ \E pem \in found : raResp' = <<RootPem(pem)>>
                     /\ raErr' = "none"
    /\ raOp' = "get"
    /\ raCert' = <<>>
    /\ raRoot' = NoRoot
    /\ UNCHANGED <<coreVars, caVars, raBundleRoot, raChainPem, caCertificatesFromMeshConfig,
                   raStored, raDomain, raPreSign, raBackend>>

\* raOpts.CaSigner, the signer used when the request names none.
CaSigner == <<"c">>
\* The values of certOpts.CertSigner in a call (<<>>: none requested).
RequestedSigners == {<<>>} \cup CertSigners
\* What preSign returns: nil, or the error of one of its validations.
PreSignResults == {"none", "CSRError", "TTLError"}

\* Faulty variant of DomainRequired, kept for comparison: the check is missing.
DomainNeverRequired(domain, certSigner) == FALSE

\* kubernetesSign: certSignerDomain == "" && certSigner != ""
DomainRequired(domain, certSigner) == domain = <<>> /\ certSigner # <<>>

\* kubernetesSign: the signer name handed to chiron.SignCSRK8s.
BackendSigner(domain, certSigner) ==
    IF domain # <<>> /\ certSigner # <<>>
    THEN domain \o <<Slash>> \o certSigner
    ELSE CaSigner

\* The outcomes of Sign for a request naming certSigner, where chains are the
\* chains chiron.SignCSRK8s can yield: preSign's error unchanged; else, from
\* kubernetesSign, the CertGenError of the domain check, or that of a failed
\* chiron.SignCSRK8s, or the chain it yields.
SignResults(domain, certSigner, chains) ==
    {[pre |-> pre, cert |-> <<>>, err |-> pre, backend |-> "idle"] :
        pre \in PreSignResults \ {"none"}}
      \cup
    (IF DomainRequired(domain, certSigner)
     THEN {[pre |-> "none", cert |-> <<>>, err |-> "CertGenError", backend |-> "idle"]}
     ELSE {[pre |-> "none", cert |-> <<>>, err |-> "CertGenError", backend |-> "failed"]}
            \cup {[pre |-> "none", cert |-> c, err |-> "none", backend |-> "signed"] :
                     c \in chains})

\* The chains the signing backend yields: a leaf issued by the signer's CA,
\* with or without that CA's certificate.
SignedChains ==
    {<<Leaf(issuer)>> : issuer \in Roots}
        \cup {<<Leaf(issuer), RootCertOf(issuer)>> : issuer \in Roots}

\* SignWithCertChain(csrPEM, certOpts): Sign's error is returned unchanged;
\* otherwise the bundle's chain is appended and the root is resolved.
SignWithCertChain ==
    /\ \E signer \in RequestedSigners :
        \E res \in SignResults(raDomain, signer, SignedChains) :
         LET cert == res.cert \o raChainPem
             certSigner == raDomain \o <<Slash>> \o signer
             rootCertFromCertChain == FindRootCertFromCertificateChainBytes(cert)
             found == GetRootCertFromMeshConfig(caCertificatesFromMeshConfig, certSigner)
         IN  /\ raSigner' = certSigner
             /\ raPreSign' = res.pre
             /\ raBackend' = res.backend
             /\ IF res.err # "none"
                THEN /\ raCert' = <<>> /\ raRoot' = NoRoot /\ raResp' = <<>>
                     /\ raErr' = res.err
                ELSE /\ raCert' = cert
                     /\ IF raBundleRoot # NoRoot
                        THEN /\ raRoot' = NoRoot
                             /\ raResp' = <<cert>>
                             /\ raErr' = "none"
                        ELSE IF rootCertFromCertChain = NoRoot
                        THEN /\ raRoot' = NoRoot
                             /\ raResp' = <<>>
                             /\ raErr' = "failed to find root cert from signed cert-chain"
                        ELSE IF found = {}
                        THEN /\ raRoot' = NoRoot
                             /\ raResp' = <<>>
                             /\ raErr' = "failed to find root cert from mesh config"
                        ELSE \E rootCertFromMeshConfig \in found :
                               /\ raRoot' = ChooseRoot(rootCertFromMeshConfig,
                                                       rootCertFromCertChain)
                               /\ IF VerifyCertificate(cert, raRoot')
                                  THEN /\ raResp' = <<cert, RootPem(raRoot')>>
                                       /\ raErr' = "none"
                                  ELSE /\ raResp' = <<>>
                                       /\ raErr' = "root cert from signed cert-chain is invalid"
    /\ raOp' = "sign"
    /\ UNCHANGED <<coreVars, caVars, raBundleRoot, raChainPem, caCertificatesFromMeshConfig,
                   raStored, raDomain>>

\* Sign(csrPEM, certOpts): preSign, then kubernetesSign.
Sign ==
    /\ \E certSigner \in RequestedSigners :
        \E res \in SignResults(raDomain, certSigner,
                                {<<Leaf(issuer)>> : issuer \in Roots}) :
             /\ raSigner' = certSigner
             /\ raPreSign' = res.pre
             /\ raBackend' = res.backend
             /\ raErr' = res.err
             /\ raResp' = IF res.err # "none" THEN <<>>
                          ELSE <<BackendSigner(raDomain, certSigner), res.cert>>
    /\ raOp' = "csr"
    /\ raCert' = <<>>
    /\ raRoot' = NoRoot
    /\ UNCHANGED <<coreVars, caVars, raBundleRoot, raChainPem, caCertificatesFromMeshConfig,
                   raStored, raDomain>>

\* Sign alone, on an RA constructed with or without a signer domain.
InitSign ==
    /\ CoreInit /\ provider = K8sSigner /\ meshRoot = NoRoot /\ CAIdle /\ TBInit
    /\ raBundleRoot \in 0 .. MaxRoot
    /\ raChainPem \in {<<>>} \cup {RootPem(r) : r \in Roots}
    /\ caCertificatesFromMeshConfig = <<>>
    /\ raStored = <<>>
    /\ raOp = "none"
    /\ raSigner = <<>>
    /\ raCert = <<>>
    /\ raRoot = NoRoot
    /\ raResp = <<>>
    /\ raErr = "none"
    /\ raDomain \in {<<>>, certSignerDomain}
    /\ raPreSign = "none"
    /\ raBackend = "idle"

NextSign == Sign

SpecSign == InitSign /\ [][NextSign]_vars

\* The registration authority alone: construction, mesh-config pushes, root
\* lookups and signing requests in any order.
InitRA == CoreInit /\ provider = K8sSigner /\ meshRoot = NoRoot /\ RAInit /\ CAIdle /\ TBInit

NextRA ==
    \/ SetCACertificatesFromMeshConfig
    \/ GetRootCert
    \/ SignWithCertChain

SpecRA == InitRA /\ [][NextRA]_vars

\* History: the roots of the stored entries whose signer list, as it was
\* given, names the signer.
StoredRootsFor(signerName) ==
    {raStored[l] : l \in {l \in DOMAIN raStored : signerName \in Range(l)}}

\* ------------------------------------------------------------- caProvider
\* The content of a CA file is Missing, the number of a version of the
\* certificate / key pair, or BadPem (bytes that do not parse). The pair is
\* replaced as a whole (both files at once).
BadPem == MaxCAVersion + 1
CAVersions == 1 .. MaxCAVersion
CAFileContents == {Missing} \cup CAVersions \cup {BadPem}

\* cert.ParseCertsPEM / keyutil.ParsePrivateKeyPEM: the parsed object carries
\* the version it was parsed from; BadPem does not parse.
ParsesOk(pem) == pem \in CAVersions
ParseCertsPEM(certPEM) == [cert |-> certPEM]
ParsePrivateKeyPEM(keyPEM) == [priv |-> keyPEM]

\* The CertificateAuthority setCA builds from the bytes it read.
NewCertificateAuthority(certPEM, keyPEM) ==
    [RawCert |-> certPEM, RawKey |-> keyPEM,
     Certificate |-> ParseCertsPEM(certPEM), PrivateKey |-> ParsePrivateKeyPEM(keyPEM)]

\* Faulty variant of IsCurrent, kept for comparison: the cached value is never stale.
IsCurrentAlways(currCA, certPEM, keyPEM) == TRUE

\* bytes.Equal(currCA.RawCert, certPEM) && bytes.Equal(currCA.RawKey, keyPEM)
IsCurrent(currCA, certPEM, keyPEM) ==
    currCA.RawCert = certPEM /\ currCA.RawKey = keyPEM

\* newCAProvider: the first setCA has stored the files' content.
CAInit ==
    /\ \E v \in CAVersions :
         /\ caCertFile = v
         /\ caKeyFile = v
         /\ caValue = NewCertificateAuthority(v, v)
    /\ caPc = [c \in Callers |-> "idle"]
    /\ caCertPEM = [c \in Callers |-> Missing]
    /\ caKeyPEM = [c \in Callers |-> Missing]
    /\ caCurr = [c \in Callers |-> NilCA]
    /\ caRet = [c \in Callers |-> NoResult]

\* currentCA returns (ca, err); its locals certPEM and keyPEM are gone.
CAReturns(c, ca, err) ==
    /\ caRet' = [caRet EXCEPT ![c] = [ca |-> ca, err |-> err]]
    /\ caPc' = [caPc EXCEPT ![c] = "done"]
    /\ caCertPEM' = [caCertPEM EXCEPT ![c] = Missing]
    /\ caKeyPEM' = [caKeyPEM EXCEPT ![c] = Missing]

\* The certificate / key pair on disk is replaced (or removed, or corrupted).
ReplaceCAFiles ==
    /\ \E v \in CAFileContents \ {caCertFile} :
         /\ caCertFile' = v
         /\ caKeyFile' = v
    /\ UNCHANGED <<coreVars, raVars, caValue, caPc, caCertPEM, caKeyPEM, caCurr, caRet>>

\* The same, at an instant at which no call of currentCA is in progress.
ReplaceCAFilesBetweenCalls ==
    /\ \A c \in Callers : caPc[c] = "idle"
    /\ ReplaceCAFiles

\* currentCA is called: certPEM, cerr := p.currentCertContent().
CurrentCAReadCert(c) ==
    /\ caPc[c] = "idle"
    /\ IF caCertFile = Missing
       THEN CAReturns(c, NilCA, "error reading CA from cert file")
       ELSE /\ caCertPEM' = [caCertPEM EXCEPT ![c] = caCertFile]
            /\ caPc' = [caPc EXCEPT ![c] = "key"]
            /\ UNCHANGED <<caRet, caKeyPEM>>
    /\ UNCHANGED <<coreVars, raVars, caCertFile, caKeyFile, caValue, caCurr>>

\* keyPEM, kerr := p.currentKeyContent().
CurrentCAReadKey(c) ==
    /\ caPc[c] = "key"
    /\ IF caKeyFile = Missing
       THEN CAReturns(c, NilCA, "error reading private key from key file")
       ELSE /\ caKeyPEM' = [caKeyPEM EXCEPT ![c] = caKeyFile]
            /\ caPc' = [caPc EXCEPT ![c] = "load"]
            /\ UNCHANGED <<caRet, caCertPEM>>
    /\ UNCHANGED <<coreVars, raVars, caCertFile, caKeyFile, caValue, caCurr>>

\* currCA := p.caValue.Load(); when its raw bytes equal the bytes read it is
\* returned, otherwise setCA is called.
CurrentCALoad(c) ==
    /\ caPc[c] = "load"
    /\ caCurr' = [caCurr EXCEPT ![c] = caValue]
    /\ IF IsCurrent(caValue, caCertPEM[c], caKeyPEM[c])
       THEN CAReturns(c, caValue, "none")
       ELSE /\ caPc' = [caPc EXCEPT ![c] = "setCert"]
            /\ caCertPEM' = [caCertPEM EXCEPT ![c] = Missing]
            /\ caKeyPEM' = [caKeyPEM EXCEPT ![c] = Missing]
            /\ UNCHANGED caRet
    /\ UNCHANGED <<coreVars, raVars, caCertFile, caKeyFile, caValue>>

\* setCA: certPEM, cerr := p.currentCertContent(); on error currentCA returns
\* (currCA, err).
SetCAReadCert(c) ==
    /\ caPc[c] = "setCert"
    /\ IF caCertFile = Missing
       THEN CAReturns(c, caCurr[c], "error reading CA from cert file")
       ELSE /\ caCertPEM' = [caCertPEM EXCEPT ![c] = caCertFile]
            /\ caPc' = [caPc EXCEPT ![c] = "setKey"]
            /\ UNCHANGED <<caRet, caKeyPEM>>
    /\ UNCHANGED <<coreVars, raVars, caCertFile, caKeyFile, caValue, caCurr>>

\* setCA: keyPEM, kerr := p.currentKeyContent().
SetCAReadKey(c) ==
    /\ caPc[c] = "setKey"
    /\ IF caKeyFile = Missing
       THEN CAReturns(c, caCurr[c], "error reading private key from key file")
       ELSE /\ caKeyPEM' = [caKeyPEM EXCEPT ![c] = caKeyFile]
            /\ caPc' = [caPc EXCEPT ![c] = "store"]
            /\ UNCHANGED <<caRet, caCertPEM>>
    /\ UNCHANGED <<coreVars, raVars, caCertFile, caKeyFile, caValue, caCurr>>

\* Faulty variant of SetCAStore, kept for comparison: the value is stored
\* before the key is checked.
SetCAStoreBeforeKeyCheck(c) ==
    /\ caPc[c] = "store"
    /\ IF ~ParsesOk(caCertPEM[c])
       THEN /\ CAReturns(c, caCurr[c], "error reading CA cert file")
            /\ UNCHANGED caValue
       ELSE IF ~ParsesOk(caKeyPEM[c])
       THEN /\ CAReturns(c, caCurr[c], "error reading CA key file")
            /\ caValue' = NewCertificateAuthority(caCertPEM[c], caKeyPEM[c])
       ELSE /\ caValue' = NewCertificateAuthority(caCertPEM[c], caKeyPEM[c])
            /\ caPc' = [caPc EXCEPT ![c] = "reload"]
            /\ caCertPEM' = [caCertPEM EXCEPT ![c] = Missing]
            /\ caKeyPEM' = [caKeyPEM EXCEPT ![c] = Missing]
            /\ UNCHANGED caRet
    /\ UNCHANGED <<coreVars, raVars, caCertFile, caKeyFile, caCurr>>

\* setCA: parse the certificate and the key, build the CertificateAuthority
\* and p.caValue.Store(ca); on a parse error currentCA returns (currCA, err).
SetCAStore(c) ==
    /\ caPc[c] = "store"
    /\ IF ~ParsesOk(caCertPEM[c])
       THEN /\ CAReturns(c, caCurr[c], "error reading CA cert file")
            /\ UNCHANGED caValue
       ELSE IF ~ParsesOk(caKeyPEM[c])
       THEN /\ CAReturns(c, caCurr[c], "error reading CA key file")
            /\ UNCHANGED caValue
       ELSE /\ caValue' = NewCertificateAuthority(caCertPEM[c], caKeyPEM[c])
            /\ caPc' = [caPc EXCEPT ![c] = "reload"]
            /\ caCertPEM' = [caCertPEM EXCEPT ![c] = Missing]
            /\ caKeyPEM' = [caKeyPEM EXCEPT ![c] = Missing]
            /\ UNCHANGED caRet
    /\ UNCHANGED <<coreVars, raVars, caCertFile, caKeyFile, caCurr>>

\* return p.caValue.Load(), nil
CurrentCAReload(c) ==
    /\ caPc[c] = "reload"
    /\ CAReturns(c, caValue, "none")
    /\ UNCHANGED <<coreVars, raVars, caCertFile, caKeyFile, caValue, caCurr>>

\* The caller has used the result; it may call again.
CurrentCADone(c) ==
    /\ caPc[c] = "done"
    /\ caPc' = [caPc EXCEPT ![c] = "idle"]
    /\ caCurr' = [caCurr EXCEPT ![c] = NilCA]
    /\ caRet' = [caRet EXCEPT ![c] = NoResult]
    /\ UNCHANGED <<coreVars, raVars, caCertFile, caKeyFile, caValue, caCertPEM,
                   caKeyPEM>>

\* The steps of the callers of currentCA.
CallerStep ==
    \/ \E c \in Callers : CurrentCAReadCert(c)
    \/ \E c \in Callers : CurrentCAReadKey(c)
    \/ \E c \in Callers : CurrentCALoad(c)
    \/ \E c \in Callers : SetCAReadCert(c)
    \/ \E c \in Callers : SetCAReadKey(c)
    \/ \E c \in Callers : SetCAStore(c)
    \/ \E c \in Callers : CurrentCAReload(c)
    \/ \E c \in Callers : CurrentCADone(c)

\* The CA provider alone, with concurrent callers and a file pair that is
\* replaced at any instant.
InitCA == CoreInit /\ provider = Custom /\ RAIdle /\ CAInit /\ TBInit

NextCA ==
    \/ ReplaceCAFiles
    \/ CallerStep

SpecCA == InitCA /\ [][NextCA]_vars

\* The CA provider with concurrent callers and a file pair that is replaced
\* only while no call is in progress.
NextCAQuiet ==
    \/ ReplaceCAFilesBetweenCalls
    \/ CallerStep

SpecCAQuiet == InitCA /\ [][NextCAQuiet]_vars

\* The callers that are inside setCA.
InSetCA == {c \in Callers : caPc[c] \in {"setCert", "setKey", "store"}}

\* The errors of currentCertContent / currentKeyContent, and those of setCA's
\* parsing steps.
CAReadErrors == {"error reading CA from cert file",
                 "error reading private key from key file"}
CAParseErrors == {"error reading CA cert file", "error reading CA key file"}

\* ----------------------------------------------------------- trust bundle
\* The Certs of one TrustAnchorUpdate: a list of root certificates.
AnchorLists == UNION {[1 .. n -> Roots] : n \in 0 .. MaxAnchors}

\* The roots of the set S in ascending order of content.
RECURSIVE SortedRoots(_)
SortedRoots(S) ==
    IF S = {} THEN <<>>
    ELSE LET m == CHOOSE x \in S : \A y \in S : x <= y
         IN  <<m>> \o SortedRoots(S \ {m})

\* Faulty variant of NotYetListed, kept for comparison: no de-duplication.
AllOfSource(certs, listed) == Range(certs)

\* The roots of a contribution that the aggregate does not list yet.
NotYetListed(certs, listed) == Range(certs) \ Range(listed)

\* The aggregate: for each source in order, its roots in order of content,
\* without those already listed.
RECURSIVE MergeFrom(_, _, _)
MergeFrom(cfg, i, acc) ==
    IF i > Len(TrustSources) THEN acc
    ELSE MergeFrom(cfg, i + 1,
                   acc \o SortedRoots(NotYetListed(cfg[TrustSources[i]], acc)))

mergeInternal(cfg) == MergeFrom(cfg, 1, <<>>)

\* update(source, certs) replaces the contribution keyed by source.
ReplaceContribution(cfg, source, certs) == [cfg EXCEPT ![source] = certs]

\* UpdateTrustAnchor(&TrustAnchorUpdate{Certs, Source}): replace the source's
\* contribution, recompute the aggregate and, in multi-root mode, propagate;
\* a failed propagation leaves the local update in effect.
UpdateTrustAnchor ==
    /\ \E source \in Range(TrustSources), certs \in AnchorLists, propagated \in BOOLEAN :
         /\ propagated \/ multiRootMesh
         /\ tbSourceConfig' = ReplaceContribution(tbSourceConfig, source, certs)
         /\ tbMerged' = mergeInternal(tbSourceConfig')
         /\ tbLatest' = [tbLatest EXCEPT ![source] = certs]
         /\ tbErr' = IF propagated THEN "none" ELSE "PropagationError"
    /\ UNCHANGED <<provider, phase, stop, bundle, watchCh, serial, k8sVars, rootVars,
                   fileVars, loadVars, plugVars, raVars, caVars>>

\* The trust bundle alone: updates from every source in any order.
InitTB == CoreInit /\ provider = IstiodPluggedIn /\ RAIdle /\ CAIdle /\ TBInit

NextTB == UpdateTrustAnchor

SpecTB == InitTB /\ [][NextTB]_vars

\* ------------------------------------------------------------- claims

\* C1: RotateDNSCertForK8sCA starts a re-issue only when the certificate held
\* by the watcher has reached the midpoint of its validity: never before the
\* midpoint and, unless it is retrying after a failed attempt, not more than
\* one tick after it. A re-issue starts when the loop leaves its sleep to call
\* GenKeyCertK8sCA.
C1_ReissueAtMidpointOfHeldCert ==
    [][(rotPc = "sleep" /\ rotPc' \in {"failed", "set"})
         => /\ Midpoint(bundle.CertPem) <= now
            /\ (~rotErr => now <= Midpoint(bundle.CertPem) + 1)]_vars

\* C2: after a failed re-issue the rotation loop does not retry immediately:
\* the wait it computes before the next attempt is not zero.
C2_RetryAfterFailureWaits ==
    (rotPc = "sleep" /\ rotErr) => waitTime > 0

\* C3: once initDNSCerts has returned, no failure to generate a key and
\* certificate ends the process.
C3_NoFatalAfterStartup ==
    phase # "fatal"

\* C4: once watchRootCertAndGenKeyCert has seen the CA's root change to r, a
\* bundle with root r is eventually published, unless the root changes again,
\* the loop is stopped or the CertProvider has no further success (the
\* model's supply of key pairs is used up).
C4_NewRootEventuallyPublished ==
    \A r \in Roots :
        (rootPc = "gen" /\ caBundle = r)
            ~> (bundle.CABundle = r \/ caRoot # r \/ stop \/ serial = MaxSerial)

\* C5: every bundle held by the watcher has a key that matches its leaf
\* certificate and a chain that validates against its root.
C5_PublishedBundleVerifies ==
    bundle # EmptyBundle => Verify(bundle.KeyPem, bundle.CertPem, bundle.CABundle)

\* C6: in the file-watch loop, the events received while a debounce timer is
\* set are coalesced: while the timer is set no SetFromFilesAndNotify call has
\* been made for them, and once it has fired and been consumed exactly one
\* call has been made for all of them; receiving an event while the timer is
\* set leaves the timer and the watcher untouched.
C6_EventsCoalescedIntoOneReload ==
    [][/\ fwPc' # "off" =>
            IF keyCertTimerC' = "nil"
            THEN fwEvents' > 0 => fwCalls' = 1
            ELSE fwEvents' >= 1 /\ fwCalls' = 0
       /\ ((evCert' < evCert \/ evKey' < evKey) /\ keyCertTimerC # "nil")
            => (keyCertTimerC' = keyCertTimerC /\ UNCHANGED <<bundle, watchCh>>)]_vars

\* C6 witness: a reload has been made for a timer during which at least two
\* events were received.
C6_Witness ==
    fwLast \in {"reload-ok", "reload-err"} /\ fwEvents >= 2 /\ fwCalls = 1

\* C7: when the CertProvider call of RotateDNSCertForK8sCA or of
\* watchRootCertAndGenKeyCert fails, the failing step and the error branch
\* publish nothing and leave the held bundle as it is, and the loop goes on
\* to its next iteration.
C7_FailedReissueKeepsBundleAndLoop ==
    [][/\ (rotPc' = "failed" /\ rotPc # "failed") => UNCHANGED <<bundle, watchCh>>
       /\ (rotPc = "failed" /\ rotPc' # "failed")
            => (rotPc' = "top" /\ UNCHANGED <<bundle, watchCh>>)
       /\ (rootPc' = "failed" /\ rootPc # "failed") => UNCHANGED <<bundle, watchCh>>
       /\ (rootPc = "failed" /\ rootPc' # "failed")
            => (rootPc' = "sleep" /\ UNCHANGED <<bundle, watchCh>>)]_vars

\* C7 witness: the rotation loop is back at the top of its loop after a failed
\* re-issue, with the bundle published at startup still held.
C7_Witness ==
    rotPc = "top" /\ rotErr /\ bundle.KeyPem = 1 /\ phase = "serving"

\* C8: a debounced reload that fails leaves the held bundle unchanged,
\* notifies nobody and leaves the file-watch loop in its select, with the
\* timer cleared so that the next file event arms a new one.
C8_FailedReloadKeepsBundleAndLoop ==
    [][(fwPc = "select" /\ keyCertTimerC = "fired" /\ keyCertTimerC' # "fired"
          /\ SetFromFilesFails)
         => (UNCHANGED <<bundle, watchCh>> /\ fwPc' = "select"
               /\ keyCertTimerC' = "nil")]_vars

\* C8 witness: the loop is in its select after a failed reload.
C8_Witness ==
    fwLast = "reload-err" /\ fwPc = "select" /\ keyCertTimerC = "nil"
        /\ bundle # EmptyBundle

\* C9: the certificate and the key loadIstiodCert hands to tls.X509KeyPair
\* come from one publication: the key is the one the certificate was issued for.
C9_ReaderSeesOnePublication ==
    loadPc = "load" =>
        LoadedPair(keyCertBundle, bundle).key = LoadedPair(keyCertBundle, bundle).cert.pub

\* C9 witness: loadIstiodCert holds a bundle that has since been replaced by
\* a publication with another key.
C9_Witness ==
    loadPc = "load" /\ keyCertBundle.KeyPem # NoKey /\ bundle.KeyPem # keyCertBundle.KeyPem

\* C10: at a poll of watchRootCertAndGenKeyCert a re-issue follows if and only
\* if the CA's root differs from the last-seen root; otherwise the loop goes
\* back to sleep, the CertProvider is not invoked and nothing is published.
\* The root remembered for the re-issue is the root just observed, and a
\* successful re-issue publishes a bundle carrying it. The CertProvider is
\* only invoked by the re-issue that follows a poll.
C10_ReissueIffRootChanged ==
    [][/\ (rootPc = "poll" /\ rootPc' # "poll")
            => /\ (rootPc' = "gen") <=> (caBundle # caRoot)
               /\ rootPc' = "gen" => caBundle' = caRoot
               /\ rootPc' # "gen" => (rootPc' = "sleep" /\ caBundle' = caBundle)
               /\ UNCHANGED <<bundle, watchCh, serial>>
       /\ (rootPc = "gen" /\ rootPc' = "sleep")
            => (bundle'.CABundle = caBundle /\ watchCh' /\ serial' = serial + 1)
       /\ (provider = Istiod /\ phase = "serving" /\ serial' # serial)
            => rootPc = "gen"]_vars

\* C10 witness: the loop sleeps after having published a re-issued bundle
\* that carries the root it observed.
C10_Witness ==
    provider = Istiod /\ rootPc = "sleep" /\ serial >= 2
        /\ bundle.CABundle = caBundle /\ bundle.KeyPem = serial

\* C14: in updatePluggedinRootCertAndGenKeyCert with multi-root mode enabled, a
\* failed trust-anchor update does not stop the operation: when the call has
\* returned after such a failure, the watcher holds the freshly generated key
\* and certificate together with the new root.
C14_AnchorFailureStillPublishes ==
    (multiRootMesh /\ plugPc = "idle" /\ plugErr = "anchor")
        => /\ bundle.KeyPem = plugNew.key
           /\ bundle.CertPem = plugNew.cert
           /\ bundle.CABundle = plugCaBundle

\* C18 (the file-watch debounce loop's part): once the stop signal is raised,
\* the loop runs at most one further iteration: a select case other than stop
\* (the timer's reload or the receipt of a file event) is not run a second
\* time after the signal.
C18_AtMostOneIterationAfterStop ==
    [][(/\ fwPc = "select" /\ stop
        /\ \/ (keyCertTimerC = "fired" /\ keyCertTimerC' = "nil")
           \/ evCert' < evCert
           \/ evKey' < evKey)
         => ~fwAfterStop]_vars

\* C20: once the watcher holds a bundle it holds one in every later state: no
\* step returns it to Empty.
C20_NeverBackToEmpty ==
    [][bundle # EmptyBundle => bundle' # EmptyBundle]_vars

\* C20 witness: the rotation loop has failed to re-issue and has returned on
\* stop, and the watcher still holds a bundle.
C20_Witness ==
    rotPc = "done" /\ rotErr /\ bundle # EmptyBundle

\* loadIstiodCert returns nil on the bundle b: tls.X509KeyPair accepts the
\* pair and every certificate of the chain parses.
LoadIstiodCertOk(b) ==
    X509KeyPairOk(b.CertPem, b.KeyPem) /\ ParseCertificatesOk(b.CertPem)

\* C19 as stated: once a publication's notification has reached
\* reloadIstiodCert, loadIstiodCert runs to its end; it reads the bundle the
\* watcher holds at that moment (the latest published), stores exactly the
\* pair of that bundle in s.istiodCert when the pair is a valid X509 key pair,
\* and leaves s.istiodCert as it was when it is not. A pending notification
\* is received unless stop is signalled.
C19_ValidPairIsLoaded ==
    /\ (phase = "serving" /\ watchCh /\ ~stop) ~> (loadPc = "recv" \/ stop)
    /\ (loadPc = "recv") ~> (loadPc = "select")
    /\ [][(loadPc = "recv" /\ loadPc' # "recv")
            => (keyCertBundle' = bundle /\ istiodCert' = istiodCert)]_vars
    /\ [][(loadPc = "load" /\ loadPc' # "load")
            => istiodCert' =
                 IF X509KeyPairOk(keyCertBundle.CertPem, keyCertBundle.KeyPem)
                 THEN [key |-> keyCertBundle.KeyPem, pub |-> keyCertBundle.CertPem.pub]
                 ELSE istiodCert]_vars

\* C19, amended: once a publication's notification has reached
\* reloadIstiodCert, loadIstiodCert runs to its end; it reads the bundle the
\* watcher holds at that moment (the latest published), stores exactly the
\* pair of that bundle in s.istiodCert when the pair is a valid X509 key pair
\* and every certificate of its chain parses, and leaves s.istiodCert as it
\* was otherwise. A pending notification is received unless stop is signalled.
C19_ReloadFollowsPublication ==
    /\ (phase = "serving" /\ watchCh /\ ~stop) ~> (loadPc = "recv" \/ stop)
    /\ (loadPc = "recv") ~> (loadPc = "select")
    /\ [][(loadPc = "recv" /\ loadPc' # "recv")
            => (keyCertBundle' = bundle /\ istiodCert' = istiodCert)]_vars
    /\ [][(loadPc = "load" /\ loadPc' # "load")
            => istiodCert' =
                 IF LoadIstiodCertOk(keyCertBundle)
                 THEN [key |-> keyCertBundle.KeyPem, pub |-> keyCertBundle.CertPem.pub]
                 ELSE istiodCert]_vars

\* C19 witness: the server's certificate is the pair of a re-issued bundle.
C19_Witness ==
    ~stop /\ loadPc = "select" /\ istiodCert.key = MaxSerial
        /\ bundle.KeyPem = MaxSerial /\ ~watchCh

\* C11: SignWithCertChain, when the CA bundle carries no root and no stored
\* mesh-config entry names the requested signer, succeeds with the root
\* extracted from the signed chain whenever that root terminates the chain:
\* it returns the chain followed by that root.
C11_ChainRootUsedWithoutMeshRoot ==
    (/\ raOp = "sign" /\ raCert # <<>> /\ raBundleRoot = NoRoot
     /\ StoredRootsFor(raSigner) = {}
     /\ VerifyCertificate(raCert, FindRootCertFromCertificateChainBytes(raCert)))
        => /\ raErr = "none"
           /\ raResp = <<raCert, RootPem(FindRootCertFromCertificateChainBytes(raCert))>>

\* C12: SignWithCertChain, when the CA bundle carries no root and both a root
\* in the signed chain and a stored mesh-config root for the signer exist,
\* chooses a mesh-config root of the signer; it returns the chain followed by
\* that root when the chain verifies against it, and an error and no
\* certificates when it does not.
C12_MeshRootPreferredAndVerified ==
    (/\ raOp = "sign" /\ raCert # <<>> /\ raBundleRoot = NoRoot
     /\ FindRootCertFromCertificateChainBytes(raCert) # NoRoot
     /\ StoredRootsFor(raSigner) # {})
        => /\ raRoot \in StoredRootsFor(raSigner)
           /\ IF VerifyCertificate(raCert, raRoot)
              THEN raErr = "none" /\ raResp = <<raCert, RootPem(raRoot)>>
              ELSE raErr # "none" /\ raResp = <<>>

\* C12 witness: a signing request answered with the mesh-config root although
\* the chain carries another root.
C12_Witness ==
    /\ raOp = "sign" /\ raErr = "none" /\ raBundleRoot = NoRoot
    /\ raRoot \in StoredRootsFor(raSigner)
    /\ FindRootCertFromCertificateChainBytes(raCert) \notin {NoRoot, raRoot}
    /\ raResp = <<raCert, RootPem(raRoot)>>

\* C13: after any sequence of SetCACertificatesFromMeshConfig calls,
\* GetRootCertFromMeshConfig(s) returns an error exactly when no stored
\* entry's signer list contains s, and otherwise the PEM of a stored entry
\* whose signer list contains s.
C13_LookupBySignerList ==
    raOp = "get" =>
        /\ (raErr # "none") <=> (StoredRootsFor(raSigner) = {})
        /\ raErr # "none" => raResp = <<>>
        /\ raErr = "none" =>
             \E pem \in StoredRootsFor(raSigner) : raResp = <<RootPem(pem)>>

\* C13 witness: a lookup answered from an entry that two signers share.
C13_Witness ==
    /\ raOp = "get" /\ raErr = "none" /\ raSigner = NameY
    /\ DOMAIN raStored = {<<NameX, NameY>>}
    /\ raResp = <<RootPem(raStored[<<NameX, NameY>>])>>

\* C15: at most one reload (setCA) executes at any time, whatever the number
\* of concurrent currentCA callers.
C15_OneReloadAtATime ==
    Cardinality(InSetCA) <= 1

\* C16: the CertificateAuthority a caller obtains is never torn: its parsed
\* certificate was parsed from its RawCert, its signer from its RawKey, and
\* its certificate and key come from the same version of the file pair.
C16_ReturnedCANotTorn ==
    \A c \in Callers :
        (caPc[c] = "done" /\ caRet[c].ca # NilCA)
            => /\ caRet[c].ca.Certificate = ParseCertsPEM(caRet[c].ca.RawCert)
               /\ caRet[c].ca.PrivateKey = ParsePrivateKeyPEM(caRet[c].ca.RawKey)
               /\ caRet[c].ca.RawCert = caRet[c].ca.RawKey

\* C17: when no file change is concurrent with a call, every call of
\* currentCA that returns without error returns a CertificateAuthority whose
\* RawCert and RawKey equal the content of the files at the time of the call.
C17_ReturnsFileContent ==
    \A c \in Callers :
        (caPc[c] = "done" /\ caRet[c].err = "none")
            => /\ caRet[c].ca.RawCert = caCertFile
               /\ caRet[c].ca.RawKey = caKeyFile

\* C17 witness: a call found the cached value stale and returned the content
\* of the files as they were replaced before the call.
C17_Witness ==
    \E c \in Callers :
        /\ caPc[c] = "done" /\ caRet[c].err = "none"
        /\ caCurr[c] # NilCA /\ caCurr[c].RawCert # caCertFile
        /\ caRet[c].ca.RawCert = caCertFile /\ caRet[c].ca.RawKey = caKeyFile

\* C21: the wait the rotation loop sleeps before it re-issues is
\* (NotAfter - NotBefore) * 0.5 - (now - NotBefore) of the certificate held
\* by the watcher, floored at zero; it is computed at the top of every
\* iteration (every sleep is entered from the top of the loop with a wait
\* computed there, and the wait is not changed while the loop sleeps).
C21_WaitComputedFromHeldCert ==
    [][/\ (rotPc = "top" /\ rotPc' # "top")
            => LET held == bundle.CertPem
                   w == ((NotAfter(held) - held.nb) \div 2) - (now - held.nb)
               IN  /\ rotPc' = "sleep"
                   /\ waitTime' = IF w < 0 THEN 0 ELSE w
                   /\ rotWake' = now + waitTime'
       /\ (rotPc' = "sleep" /\ rotPc # "sleep") => rotPc = "top"
       /\ (rotPc' \in {"failed", "set"} /\ rotPc # rotPc') => rotPc = "sleep"
       /\ rotPc = "sleep" => UNCHANGED <<waitTime, rotWake>>]_vars

\* C21 witness: in a later iteration the loop sleeps with a wait floored at
\* zero, computed from a held certificate that is past its midpoint.
C21_Witness ==
    /\ rotPc = "sleep" /\ rotErr /\ waitTime = 0
    /\ now - bundle.CertPem.nb > (NotAfter(bundle.CertPem) - bundle.CertPem.nb) \div 2

\* C22: after any sequence of trust-anchor updates from the different
\* sources, in any order, the aggregate trust bundle holds exactly the roots
\* of the latest update of each source (an update replaces its source's
\* earlier roots and leaves the other sources' alone), each root once.
C22_AggregateIsUnionOfLatest ==
    /\ Range(tbMerged) = UNION {Range(tbLatest[src]) : src \in Range(TrustSources)}
    /\ \A i, j \in DOMAIN tbMerged : i # j => tbMerged[i] # tbMerged[j]

\* C22 witness: two sources contribute an overlapping root and the last
\* propagation failed.
C22_Witness ==
    /\ tbLatest["IstioCA"] = <<2>> /\ tbLatest["MeshConfig"] = <<2, 1>>
    /\ tbMerged = <<2, 1>> /\ tbErr = "PropagationError"

\* C23 as stated: Sign returns a CertGenError and no certificate whenever the
\* signing backend fails, and also whenever a certificate signer is requested
\* and no signer domain is configured; in the latter case the backend is not
\* contacted.
C23_SignFailsWithCertGenError ==
    raOp = "csr" =>
        /\ raBackend = "failed" => (raErr = "CertGenError" /\ raResp = <<>>)
        /\ (raSigner # <<>> /\ raDomain = <<>>)
             => (raErr = "CertGenError" /\ raResp = <<>> /\ raBackend = "idle")

\* C23 as amended: for a request that preSign accepts, Sign returns a
\* CertGenError and no certificate whenever the signing backend fails, and
\* also when a certificate signer is requested and no signer domain is
\* configured; in the latter case, and when preSign rejects the request, the
\* backend is not contacted and no certificate is returned.
C23_AcceptedRequestFailsWithCertGenError ==
    raOp = "csr" =>
        /\ raBackend = "failed" => (raErr = "CertGenError" /\ raResp = <<>>)
        /\ (raPreSign = "none" /\ raSigner # <<>> /\ raDomain = <<>>)
             => (raErr = "CertGenError" /\ raResp = <<>> /\ raBackend = "idle")
        /\ raPreSign # "none"
             => (raErr = raPreSign /\ raResp = <<>> /\ raBackend = "idle")

\* C23 witness: a request that names a signer, accepted by preSign, is refused
\* by an RA without signer domain.
C23_Witness ==
    /\ raOp = "csr" /\ raPreSign = "none" /\ raSigner = <<"x">> /\ raDomain = <<>>
    /\ raErr = "CertGenError" /\ raBackend = "idle"

\* C24: with the Kubernetes-signer provider, a publication by
\* RotateDNSCertForK8sCA never replaces the watcher's CA bundle by an older
\* root: the root it publishes is the one the watcher holds at that moment
\* (set at startup or by the mesh-config handler's latest publication).
C24_RotationKeepsNewestRoot ==
    [][(provider = K8sSigner /\ rotPc = "set" /\ rotPc' = "top")
         => bundle'.CABundle = bundle.CABundle]_vars

\* C25: on a mesh-config update with the Kubernetes-signer provider, the
\* handler goes on to re-issue if and only if the lookup for the signer
\* yields a root that differs from the CA bundle the watcher holds;
\* otherwise (lookup failed, or root unchanged) the CertProvider is not
\* invoked and nothing is published. The root kept for the re-issue is the
\* one the lookup gave, and the bundle published after the re-issue carries
\* it. The handler invokes the CertProvider only in such a re-issue.
C25_HandlerReissuesIffRootDiffers ==
    [][/\ (provider = K8sSigner /\ phase = "serving" /\ meshPc = "idle"
             /\ (meshRoot' # meshRoot \/ meshPc' # meshPc))
            => /\ (meshPc' = "gen")
                    <=> (meshRoot' # NoRoot /\ meshRoot' # bundle.CABundle)
               /\ meshPc' = "gen" => newCaBundle' = meshRoot'
               /\ UNCHANGED <<bundle, watchCh, serial>>
       /\ (meshPc = "gen" /\ meshPc' = "idle")
            => /\ bundle'.CABundle = newCaBundle
               /\ bundle'.KeyPem = serial + 1 /\ bundle'.CertPem.pub = serial + 1
               /\ watchCh' /\ serial' = serial + 1
       /\ (provider = K8sSigner /\ phase = "serving" /\ serial' # serial)
            => (meshPc = "gen" \/ rotPc = "sleep")]_vars

\* C25 witness: before the certificate's first rotation is due, the handler
\* has published a re-issued bundle that carries the root of the mesh config.
C25_Witness ==
    /\ provider = K8sSigner /\ phase = "serving" /\ meshPc = "idle" /\ now = 0
    /\ serial = 2 /\ bundle.KeyPem = 2 /\ bundle.CABundle = meshRoot

\* C26: initDNSCerts, for every cert-provider setting, publishes exactly one
\* bundle when it succeeds (the watcher, empty before, then holds the bundle
\* built from the generated key and certificate and the root, with one
\* notification pending), and leaves the watcher as it was when it returns an
\* error; a failing root lookup in the mesh config makes it return an error.
C26_InitPublishesOnceOrNothing ==
    [][(phase = "boot" /\ provider # TLSFiles /\ phase' # "boot")
         => /\ (provider = K8sSigner /\ meshRoot = NoRoot) => phase' = "initerr"
            /\ \/ /\ phase' = "initerr"
                  /\ UNCHANGED <<bundle, watchCh>>
               \/ /\ phase' = "serving"
                  /\ bundle = EmptyBundle /\ ~watchCh
                  /\ watchCh'
                  /\ bundle'.CABundle # NoRoot
                  /\ IF provider = Custom
                     THEN bundle'.KeyPem = NoKey /\ bundle'.CertPem = NoCert
                          /\ serial' = serial
                     ELSE bundle'.KeyPem = serial + 1
                          /\ bundle'.CertPem.pub = serial + 1
                          /\ serial' = serial + 1]_vars

\* C26 witness: initDNSCerts has returned an error because the mesh config
\* has no root for the signer, and the watcher is still empty.
C26_Witness ==
    /\ phase = "initerr" /\ provider = K8sSigner /\ meshRoot = NoRoot
    /\ bundle = EmptyBundle /\ ~watchCh

\* C27: SetCACertificatesFromMeshConfig only adds or overwrites. After any
\* sequence of calls the stored keys are exactly the joined signer lists that
\* were ever supplied with a non-empty PEM, each mapped to the PEM of the
\* latest entry that carried that list, and every signer of such a list is
\* resolvable; no step removes a key or empties its PEM, and entries with an
\* empty PEM or an empty signer list leave the map as it is.
C27_MeshConfigOnlyAddsOrOverwrites ==
    /\ [](/\ DOMAIN caCertificatesFromMeshConfig = {Join(l) : l \in DOMAIN raStored}
          /\ \A l \in DOMAIN raStored :
                /\ l # <<>> /\ raStored[l] # 0
                /\ caCertificatesFromMeshConfig[Join(l)] = raStored[l]
                /\ \A signer \in Range(l) :
                      GetRootCertFromMeshConfig(caCertificatesFromMeshConfig, signer) # {})
    /\ [][\A k \in DOMAIN caCertificatesFromMeshConfig :
             /\ k \in DOMAIN caCertificatesFromMeshConfig'
             /\ caCertificatesFromMeshConfig'[k] # 0
             /\ (caCertificatesFromMeshConfig'[k] # caCertificatesFromMeshConfig[k]
                   => \E l \in DOMAIN raStored' :
                        Join(l) = k /\ raStored'[l] = caCertificatesFromMeshConfig'[k])]_vars

\* C27 witness: three successive pushes, each with another signer list, have
\* left three entries in the map.
C27_Witness ==
    /\ raOp = "set"
    /\ Cardinality(DOMAIN caCertificatesFromMeshConfig) = 3
    /\ GetRootCertFromMeshConfig(caCertificatesFromMeshConfig, NameX) # {}

\* C28: GetRootCertFromMeshConfig is deterministic: two successive lookups of
\* the same signer, with no SetCACertificatesFromMeshConfig call between
\* them, return the same result.
C28_LookupDeterministic ==
    [][(raOp = "get" /\ raOp' = "get" /\ raSigner' = raSigner)
         => (raResp' = raResp /\ raErr' = raErr)]_vars

\* C29 as stated: a call of currentCA that finds the files changed and fails to parse
\* them returns the error together with the CertificateAuthority that was
\* cached; a call that cannot read a file returns the error and no
\* CertificateAuthority; in both cases the failing call leaves the cached
\* value as it is.
C29_FailedCallKeepsCache ==
    /\ [](\A c \in Callers :
             caPc[c] = "done" =>
                /\ caRet[c].err \in CAParseErrors
                     => (caRet[c].ca = caCurr[c] /\ caRet[c].ca # NilCA)
                /\ caRet[c].err \in CAReadErrors => caRet[c].ca = NilCA)
    /\ [][\A c \in Callers :
             (caPc[c] # "done" /\ caPc'[c] = "done" /\ caRet'[c].err # "none")
                => caValue' = caValue]_vars

\* C29 as amended: a call of currentCA that fails returns the error together
\* with what it had loaded from the cache when it failed: no
\* CertificateAuthority when a file cannot be read before the cached value
\* is loaded, and the previously cached CertificateAuthority when the reload
\* fails, be it on parsing or on reading a file again; in every case the
\* failing call leaves the cached value as it is.
C29_FailedCallReturnsWhatItLoaded ==
    /\ [](\A c \in Callers :
             (caPc[c] = "done" /\ caRet[c].err # "none") =>
                /\ caRet[c].ca = caCurr[c]
                /\ caRet[c].err \in CAParseErrors => caRet[c].ca # NilCA
                /\ caRet[c].ca = NilCA => caRet[c].err \in CAReadErrors)
    /\ [][\A c \in Callers :
             (caPc[c] # "done" /\ caPc'[c] = "done" /\ caRet'[c].err # "none")
                => caValue' = caValue]_vars

\* C29 witness: a reload failed on reading a file that had been readable
\* when the call started, and the call returned the cached value.
C29_Witness ==
    \E c \in Callers :
        /\ caPc[c] = "done" /\ caRet[c].err \in CAReadErrors
        /\ caRet[c].ca # NilCA /\ caRet[c].ca = caValue

\* C30: no file event received by the file-watch loop is lost: after every
\* receipt of a cert-file or key-file event a debounce timer is set, and
\* whenever a timer is set a SetFromFilesAndNotify call follows (the call
\* that clears that timer, hence one that starts after the receipt), unless
\* stop is signalled first.
C30_ReceivedEventIsReloaded ==
    /\ [][(evCert' < evCert \/ evKey' < evKey) => keyCertTimerC' # "nil"]_vars
    /\ (fwPc = "select" /\ keyCertTimerC # "nil")
          ~> ((keyCertTimerC = "nil" /\ fwLast \in {"reload-ok", "reload-err"}) \/ stop)

\* C30 witness: the loop has reloaded after an event that arrived while no
\* timer was set, and a further event is queued behind the reload.
C30_Witness ==
    /\ ~stop /\ fwPc = "select" /\ keyCertTimerC = "nil"
    /\ fwLast = "reload-ok" /\ fwEvents = 1 /\ fwCalls = 1
    /\ evCert + evKey > 0
=============================================================================
